---- MODULE Spec2Model ----
(***************************************************************************)
(* Verification model of the headless interaction patterns and services of *)
(* the component library: MenuPattern / MenuItemPattern /                  *)
(* MenuTriggerPattern / MenuBarPattern, the direction keys of the menu,    *)
(* menubar and tablist patterns, MatDrawerContainer drawer validation and  *)
(* YouTubeApiLoaderService.                                                *)
(***************************************************************************)
EXTENDS Integers, Sequences, FiniteSets, TLC

VARIABLES
    \* ---- menu patterns ----
    rootKind,       \* what the top of the menu tree is: "trigger", "menubar" or "menu"
    tree,           \* how much of the menu tree exists: "full" or "small"
    softDisabled,   \* ListInputs.softDisabled: disabled items stay focusable
    disabled,       \* MenuItemInputs.disabled, per item
    expandedRaw,    \* MenuItemPattern._expanded, per item
    active,         \* inputs.activeItem of every menu and of the menubar
    isFocused,      \* MenuPattern.isFocused / MenuBarPattern.isFocused
    trigExpanded,   \* MenuTriggerPattern.expanded
    openTimeout,    \* MenuPattern._openTimeout (a timer handle, 0 = undefined)
    closeTimeout,   \* MenuPattern._closeTimeout (a timer handle, 0 = undefined)
    timers,         \* the browser's pending setTimeout callbacks, in creation order
    textDirection,  \* inputs.textDirection of the menus and the menubar
    calls,          \* values passed to onSelect by the last handler
    submits,        \* items MenuPattern.submit was called with by the last handler
    watch,          \* the handlers whose runs are recorded in `last`
    last,           \* the last handler that ran, with what it was given
    \* ---- direction keys of the menu, menubar and tablist patterns ----
    kbWidget,       \* the pattern whose keydown manager handled the last key
    kbDir,          \* inputs.textDirection
    kbOrientation,  \* TabListInputs.orientation
    kbKey,          \* the key of the last keydown event
    kbRan,          \* the handlers the keydown manager ran for it, in order
    \* ---- MatDrawerContainer ----
    drawers,        \* _drawers: the drawers of the container, in content order
    dirValue,       \* _dir.value, "none" when no Directionality is provided
    ngDevMode,      \* the ngDevMode global: "undefined", "true" or "false"
    startDrawer,    \* _start (a drawer id, 0 = null)
    endDrawer,      \* _end
    leftDrawer,     \* _left
    rightDrawer,    \* _right
    thrown,         \* the message of the error the last validation threw
    renderPending,  \* an afterNextRender validation is scheduled
    validated,      \* _validateDrawers has run on the drawers as they are now
    \* ---- YouTubeApiLoaderService ----
    loaded,         \* YouTubeApiLoaderService.loaded
    loading,        \* loading$: the buffer and the end of the ReplaySubject
    scripts,        \* the script elements injected, each "pending", "loaded" or "failed"
    observers,      \* what every subscriber of load() has received
    \* ---- YouTubePlayerComponent and its YouTubePlayerFacade ----
    showPlaceholder,    \* YouTubePlayerComponent.showPlaceholder
    facadePlayer,       \* YouTubePlayerFacade.player (an index of ytPlayers, 0 = undefined)
    ytPlayers,          \* the YT.Player objects the component created: "alive" or "destroyed"
    componentDestroyed, \* ngOnDestroy has run
    \* ---- MatRadioGroup and MatRadioButton ----
    hasGroup,       \* the radio buttons are inside a MatRadioGroup (radioGroup is not null)
    rPresent,       \* the radio buttons that exist; each has run ngOnInit
    rChecked,       \* MatRadioButton._checked, per radio button
    rValue,         \* MatRadioButton._value
    rName,          \* MatRadioButton.name
    rDisabled,      \* MatRadioButton._disabled
    listeners,      \* the radio buttons listening to the UniqueSelectionDispatcher, in order
    gValue,         \* MatRadioGroup._value
    gSelected,      \* MatRadioGroup._selected (a radio button, 0 = null)
    gIsInitialized, \* MatRadioGroup._isInitialized
    gDisabled,      \* MatRadioGroup._disabled
    gRadios,        \* MatRadioGroup._radios, in content order
    radioChanges,   \* the radio buttons whose change event the last operation emitted
    groupChanges,   \* the values the group's change event was emitted with by the last operation
    cvaCalls,       \* the values _controlValueAccessorChangeFn was called with
    radioOp,        \* the last operation: a user interaction and its radio button, or another
    \* ---- TabListPattern and its TabPatterns ----
    tabDisabled,     \* the tabs whose disabled input is true
    tabSoftDisabled, \* inputs.softDisabled
    tabListDisabled, \* inputs.disabled of the tablist
    tabWrap,         \* inputs.wrap
    tabDir,          \* inputs.textDirection
    selectionMode,   \* inputs.selectionMode: "follow" or "explicit"
    activeTab,       \* inputs.activeItem (a tab, 0 = undefined)
    selectedTab,     \* TabListPattern.selectedTab (a tab, 0 = undefined)
    tabExpanded,     \* TabPattern.expanded, per tab
    tabOp,           \* the last operation: its argument, navigation succeeded (ok), open returned true (result)
    \* ---- TreeItemPattern ----
    treeParent,     \* inputs.parent, per item (an item, 0 = the TreePattern)
    treeExpanded,   \* TreeItemPattern.expanded, per item
    treeOp,         \* the last write of an expanded signal: the item and the value
    \* ---- MatSelectionList and SelectionListSelectionService ----
    slMultiple,     \* SelectionListSelectionService.multiple
    slSelected,     \* selectedOptions.selected: the options in the SelectionModel, in order
    slWatched,      \* selectedOptions is the model watchForSelectionChange subscribed to
    slInitialized,  \* MatSelectionList._initialized
    slNgDevMode,    \* the ngDevMode global: "undefined", "true" or "false"
    slValue,        \* MatSelectionList._value (None = null)
    optSelected,    \* MatListOption._selected, per option
    slThrown,       \* the message of the error the last operation threw
    slOp,           \* the last operation and its argument
    \* ---- MatDrawer (open state, toggle promises) and the backdrop of MatDrawerContainer ----
    dwPresent,      \* the drawers of the container: 1 = _start, 2 = _end
    dwOpened,       \* MatDrawer._opened, per drawer
    dwMode,         \* MatDrawer._mode, per drawer
    dwDisableClose, \* MatDrawer._disableClose, per drawer
    backdropOverride,   \* MatDrawerContainer._backdropOverride: "null", "true" or "false"
    transitionsEnabled, \* MatDrawerContainer._transitionsEnabled
    dwEnding,       \* per drawer, the animations (transitions or timeouts) that have not ended
    dwEmissions,    \* per drawer, the values openedChange has emitted and not delivered yet
    dwPending,      \* per drawer, the promises waiting for openedChange: what each call requested
    dwResolved,     \* the promises the last operation resolved: drawer, requested, result
    dwOp,           \* the last call or event (other: an input, an animation end, a delivery), its drawer, whether backdropClick was emitted
    \* ---- DocFetcher, the HttpClient it uses, and DocViewer ----
    docCache,       \* DocFetcher._cache: per URL the stream cached (0 = none)
    docStreams,     \* the streams http.get(url).pipe(shareReplay(1)): url, state, text
    docCalls,       \* the observables fetchDocument returned: stream, tap, owner, state, got
    docRequests,    \* per URL, the HTTP requests sent
    viewerSub,      \* DocViewer._documentFetchSubscription (a call, 0 = undefined)
    viewerContent,  \* what DocViewer displays: its source and its text
    viewerDocument, \* the last value of the document input that was a URL or a component
    viewerDestroyed, \* ngOnDestroy of the DocViewer has run
    docOp           \* the last operation and the URL it is about

menuVars == <<rootKind, tree, softDisabled, disabled, expandedRaw, active, isFocused,
              trigExpanded, openTimeout, closeTimeout, timers,
              textDirection, calls, submits, watch, last>>
keyVars == <<kbWidget, kbDir, kbOrientation, kbKey, kbRan>>
drawerVars == <<drawers, dirValue, ngDevMode, startDrawer, endDrawer, leftDrawer,
                rightDrawer, thrown, renderPending, validated>>
loaderVars == <<loaded, loading, scripts, observers>>
playerVars == <<showPlaceholder, facadePlayer, ytPlayers, componentDestroyed>>
radioVars == <<hasGroup, rPresent, rChecked, rValue, rName, rDisabled, listeners, gValue, gSelected, gIsInitialized, gDisabled, gRadios, radioChanges, groupChanges, cvaCalls, radioOp>>
tabsVars == <<tabDisabled, tabSoftDisabled, tabListDisabled, tabWrap, tabDir, selectionMode, activeTab, selectedTab, tabExpanded, tabOp>>
treeVars == <<treeParent, treeExpanded, treeOp>>
listVars == <<slMultiple, slSelected, slWatched, slInitialized, slNgDevMode, slValue, optSelected, slThrown, slOp>>
sidenavVars == <<dwPresent, dwOpened, dwMode, dwDisableClose, backdropOverride, transitionsEnabled, dwEnding, dwEmissions, dwPending, dwResolved, dwOp>>
docsVars == <<docCache, docStreams, docCalls, docRequests, viewerSub, viewerContent, viewerDocument, viewerDestroyed, docOp>>
vars == <<menuVars, keyVars, drawerVars, loaderVars, playerVars, radioVars, tabsVars, treeVars, listVars, sidenavVars, docsVars>>

None == "none"

\* ------------------------------------------------------------------------
\* The widget tree (the `items`, `parent` and `submenu` inputs).
\* ------------------------------------------------------------------------
Trigger == "trigger"
Bar == "bar"
Menus == {"M1", "M2", "M3", "M4", "M5"}
Items == {"a1", "a2", "a3", "b1", "b2", "c1", "d1", "p1", "p2", "e1"}
RootKinds == {"trigger", "menubar", "menu"}

\* The patterns that exist for the chosen root. Under a trigger and as a
\* standalone menu the full tree is M1[a1 a2 a3], a2 > M2[b1 b2], a3 > M3[c1],
\* b2 > M4[d1]; under a menubar it is bar[p1 p2], p1 > M1[a1 a2 a3],
\* a2 > M2[b1 b2], p2 > M5[e1]. The small tree has M1 and M2 only. An item
\* whose submenu does not exist is an item without a submenu.
LiveMenus ==
    IF tree = "small" THEN {"M1", "M2"}
    ELSE IF rootKind = "menubar" THEN {"M1", "M2", "M5"}
    ELSE {"M1", "M2", "M3", "M4"}
LiveLists == IF rootKind = "menubar" THEN LiveMenus \cup {Bar} ELSE LiveMenus
LiveItems ==
    {i \in Items : \/ i \in {"a1", "a2", "a3"} \/ (i \in {"b1", "b2"})
                   \/ (i = "c1" /\ "M3" \in LiveMenus)
                   \/ (i = "d1" /\ "M4" \in LiveMenus)
                   \/ (i = "e1" /\ "M5" \in LiveMenus)
                   \/ (i \in {"p1", "p2"} /\ rootKind = "menubar")}

\* inputs.items() of a menu or of the menubar
itemsOf(l) ==
    CASE l = "M1" -> <<"a1", "a2", "a3">>
      [] l = "M2" -> <<"b1", "b2">>
      [] l = "M3" -> <<"c1">>
      [] l = "M4" -> <<"d1">>
      [] l = "M5" -> <<"e1">>
      [] l = Bar  -> <<"p1", "p2">>
      [] OTHER    -> <<>>

\* MenuItemInputs.submenu
submenu(i) ==
    LET m == CASE i = "a2" -> "M2"
               [] i = "a3" -> "M3"
               [] i = "b2" -> "M4"
               [] i = "p1" -> "M1"
               [] i = "p2" -> "M5"
               [] OTHER    -> None
    IN IF m \in LiveMenus THEN m ELSE None

\* MenuItemInputs.parent
itemParent(i) ==
    CASE i \in {"a1", "a2", "a3"} -> "M1"
      [] i \in {"b1", "b2"}       -> "M2"
      [] i = "c1"                 -> "M3"
      [] i = "d1"                 -> "M4"
      [] i = "e1"                 -> "M5"
      [] OTHER                    -> Bar

\* MenuInputs.parent: a menu trigger, a menu item, or undefined
menuParent(m) ==
    CASE m = "M1" -> (CASE rootKind = "trigger" -> Trigger
                        [] rootKind = "menubar" -> "p1"
                        [] OTHER                -> None)
      [] m = "M2" -> "a2"
      [] m = "M3" -> "a3"
      [] m = "M4" -> "b2"
      [] OTHER    -> "p2"

Range(q) == {q[k] : k \in 1..Len(q)}

\* The menus under a menu item, and the items in them.
RECURSIVE MenusBelow(_)
MenusBelow(i) ==
    IF submenu(i) = None THEN {}
    ELSE {submenu(i)} \cup UNION {MenusBelow(j) : j \in Range(itemsOf(submenu(i)))}

Below(i) == UNION {Range(itemsOf(m)) : m \in MenusBelow(i)}

\* The menu items between the root and a menu.
RECURSIVE PathItems(_)
PathItems(m) ==
    IF menuParent(m) \in Items
    THEN {menuParent(m)} \cup (IF itemParent(menuParent(m)) \in Menus
                                THEN PathItems(itemParent(menuParent(m))) ELSE {})
    ELSE {}

\* MenuPattern.root
RECURSIVE root(_)
root(m) ==
    LET parent == menuParent(m) IN
    IF parent = None THEN m
    ELSE IF parent = Trigger THEN Trigger
    ELSE LET grandparent == itemParent(parent) IN
         IF grandparent = Bar THEN Bar ELSE root(grandparent)

\* ------------------------------------------------------------------------
\* The mutable state the handlers work on, as one record.
\* ------------------------------------------------------------------------
Cur == [ex |-> expandedRaw, act |-> active, tx |-> trigExpanded,
        ot |-> openTimeout, ct |-> closeTimeout, tm |-> timers,
        calls |-> <<>>, subs |-> <<>>]

Commit(s) ==
    /\ expandedRaw' = s.ex
    /\ active' = s.act
    /\ trigExpanded' = s.tx
    /\ openTimeout' = s.ot
    /\ closeTimeout' = s.ct
    /\ timers' = s.tm
    /\ calls' = s.calls
    /\ submits' = s.subs

\* MenuItemPattern.disabled (the menus themselves are never disabled here)
itemDisabled(i) == disabled[i]

\* MenuItemPattern.hasPopup
hasPopup(i) == submenu(i) # None

\* MenuItemPattern.expanded: null (here FALSE) for an item without a submenu
expanded(s, i) == IF submenu(i) # None THEN s.ex[i] ELSE FALSE

\* `item._expanded.set(v)`. Without a submenu expanded() is null whatever
\* _expanded holds and nothing else reads it, so only the items with a
\* submenu keep the flag.
SetExpanded(s, i, v) == IF submenu(i) # None THEN [s EXCEPT !.ex[i] = v] ELSE s

\* MenuPattern.visible
visible(s, m) ==
    LET parent == menuParent(m) IN
    IF parent = None THEN TRUE
    ELSE IF parent = Trigger THEN s.tx
    ELSE expanded(s, parent)

\* ------------------------------------------------------------------------
\* List behavior (behaviors/list): focus and navigation of one list.
\* ------------------------------------------------------------------------
isFocusable(i) == ~itemDisabled(i) \/ softDisabled

IndexOf(q, x) == IF x \in Range(q) THEN CHOOSE k \in 1..Len(q) : q[k] = x ELSE 0

ListGoto(s, l, i) ==
    IF i # None /\ isFocusable(i) THEN [s EXCEPT !.act[l] = i] ELSE s

ListUnfocus(s, l) == [s EXCEPT !.act[l] = None]

ListFirst(s, l) ==
    LET q == itemsOf(l)
        ks == {k \in 1..Len(q) : isFocusable(q[k])}
    IN IF ks = {} THEN s
       ELSE ListGoto(s, l, q[CHOOSE k \in ks : \A j \in ks : k <= j])

ListLast(s, l) ==
    LET q == itemsOf(l)
        ks == {k \in 1..Len(q) : isFocusable(q[k])}
    IN IF ks = {} THEN s
       ELSE ListGoto(s, l, q[CHOOSE k \in ks : \A j \in ks : k >= j])

\* The items met when stepping by delta from the active item, wrapping around.
Peek(s, l, delta) ==
    LET q == itemsOf(l)
        n == Len(q)
        start == IndexOf(q, s.act[l]) - 1
        at(j) == ((start + j * delta + n * (j + 1)) % n) + 1
        js == {j \in 1..n : at(j) - 1 # start /\ isFocusable(q[at(j)])
                            /\ \A h \in 1..(j - 1) : at(h) - 1 # start}
    IN IF n = 0 \/ js = {} THEN None
       ELSE q[at(CHOOSE j \in js : \A h \in js : j <= h)]

ListNext(s, l) == ListGoto(s, l, Peek(s, l, 1))
ListPrev(s, l) == ListGoto(s, l, Peek(s, l, -1))

\* ------------------------------------------------------------------------
\* Hover timers: setTimeout / clearTimeout.
\* ------------------------------------------------------------------------
UsedIds(s) == {s.tm[k].id : k \in 1..Len(s.tm)}
                \cup {s.ot[m] : m \in Menus} \cup {s.ct[m] : m \in Menus}

NewId(s) == CHOOSE n \in 1..(2 * Cardinality(Menus) + 1) :
                n \notin UsedIds(s) /\ \A k \in 1..(n - 1) : k \in UsedIds(s)

SetTimeout(s, kind, m, i) ==
    [s EXCEPT !.tm = Append(s.tm, [id |-> NewId(s), kind |-> kind, menu |-> m, item |-> i])]

ClearTimeout(s, h) == [s EXCEPT !.tm = SelectSeq(s.tm, LAMBDA t : t.id # h)]

\* MenuPattern._clearOpenTimeout
ClearOpenTimeout(s, m) ==
    IF s.ot[m] # 0 THEN [ClearTimeout(s, s.ot[m]) EXCEPT !.ot[m] = 0] ELSE s

\* MenuPattern._clearCloseTimeout
ClearCloseTimeout(s, m) ==
    IF s.ct[m] # 0 THEN [ClearTimeout(s, s.ct[m]) EXCEPT !.ct[m] = 0] ELSE s

\* MenuPattern._clearTimeouts
ClearTimeouts(s, m) == ClearCloseTimeout(ClearOpenTimeout(s, m), m)

\* MenuPattern._closeItem
CloseItemLater(s, m, i) ==
    LET s1 == ClearOpenTimeout(s, m) IN
    IF s1.ct[m] = 0
    THEN [SetTimeout(s1, "close", m, i) EXCEPT !.ct[m] = NewId(s1)]
    ELSE s1

\* MenuPattern._openItem
OpenItemLater(s, m, i) ==
    LET s1 == ClearOpenTimeout(s, m) IN
    [SetTimeout(s1, "open", m, i) EXCEPT !.ot[m] = NewId(s1)]

\* ------------------------------------------------------------------------
\* MenuItemPattern.
\* ------------------------------------------------------------------------
\* The loop of MenuItemPattern.close over the items below the closed item:
\* `stack` is `menuitems`, popped from its end.
\* items() is taken to hand out an array of its own on every read, so the
\* pop() shortens the loop's array and not the menu's items.
RECURSIVE ItemCloseLoop(_, _)
ItemCloseLoop(s, stack) ==
    IF Len(stack) = 0 THEN s
    ELSE LET menuitem == stack[Len(stack)]
             rest == SubSeq(stack, 1, Len(stack) - 1)
             parent == itemParent(menuitem)
             s1 == SetExpanded(s, menuitem, FALSE)
             s2 == ListUnfocus(s1, parent)
             more == IF submenu(menuitem) # None THEN itemsOf(submenu(menuitem)) ELSE <<>>
             s3 == IF parent \in Menus THEN ClearTimeouts(s2, parent) ELSE s2
         IN ItemCloseLoop(s3, rest \o more)

\* close collapsing the item alone, not what is below it
ItemCloseShallow(s, i, refocus) ==
    LET s1 == SetExpanded(s, i, FALSE)
    IN IF refocus THEN ListGoto(s1, itemParent(i), i) ELSE s1

\* MenuItemPattern.close
ItemClose(s, i, refocus) ==
    LET s1 == SetExpanded(s, i, FALSE)
        s2 == IF refocus THEN ListGoto(s1, itemParent(i), i) ELSE s1
        menuitems == IF submenu(i) # None THEN itemsOf(submenu(i)) ELSE <<>>
    IN ItemCloseLoop(s2, menuitems)

\* `this.inputs.activeItem()?.close(...)`
CloseActive(s, l, refocus) ==
    IF s.act[l] # None THEN ItemClose(s, s.act[l], refocus) ELSE s

\* MenuPattern.first / last / next / prev
MenuFirst(s, m) == ListFirst(CloseActive(s, m, FALSE), m)
MenuLast(s, m) == ListLast(CloseActive(s, m, FALSE), m)
MenuNext(s, m) == ListNext(CloseActive(s, m, FALSE), m)
MenuPrev(s, m) == ListPrev(CloseActive(s, m, FALSE), m)

\* MenuItemPattern.open; opt is "first", "last" or "none"
ItemOpen(s, i, opt) ==
    IF itemDisabled(i) THEN s
    ELSE LET s1 == SetExpanded(s, i, TRUE) IN
         IF submenu(i) = None THEN s1
         ELSE IF opt = "first" THEN MenuFirst(s1, submenu(i))
         ELSE IF opt = "last" THEN MenuLast(s1, submenu(i))
         ELSE s1

\* ------------------------------------------------------------------------
\* MenuTriggerPattern.
\* ------------------------------------------------------------------------
\* The loop of MenuTriggerPattern.close over the items of the menu tree.
RECURSIVE TriggerCloseLoop(_, _)
TriggerCloseLoop(s, stack) ==
    IF Len(stack) = 0 THEN s
    ELSE LET menuitem == stack[Len(stack)]
             rest == SubSeq(stack, 1, Len(stack) - 1)
             s1 == SetExpanded(s, menuitem, FALSE)
             s2 == ListUnfocus(s1, itemParent(menuitem))
             more == IF submenu(menuitem) # None THEN itemsOf(submenu(menuitem)) ELSE <<>>
         IN TriggerCloseLoop(s2, rest \o more)

\* MenuTriggerPattern.close (refocus only moves DOM focus to the trigger)
TriggerClose(s) ==
    LET s1 == [s EXCEPT !.tx = FALSE]
        s2 == ListUnfocus(s1, "M1")
    IN TriggerCloseLoop(s2, itemsOf("M1"))

\* MenuTriggerPattern.open
TriggerOpen(s, opt) ==
    LET s1 == [s EXCEPT !.tx = TRUE] IN
    IF opt = "first" THEN MenuFirst(s1, "M1")
    ELSE IF opt = "last" THEN MenuLast(s1, "M1")
    ELSE s1

\* ------------------------------------------------------------------------
\* MenuBarPattern.
\* ------------------------------------------------------------------------
\* MenuBarPattern.close
BarClose(s) == CloseActive(s, Bar, isFocused[Bar])

\* MenuBarPattern.goto
BarGoto(s, item) ==
    LET prevItem == s.act[Bar]
        s1 == ListGoto(s, Bar, item)
        s2 == IF prevItem # None /\ expanded(s1, prevItem)
              THEN LET c == ItemClose(s1, prevItem, FALSE) IN
                   IF c.act[Bar] # None THEN ItemOpen(c, c.act[Bar], "none") ELSE c
              ELSE s1
        sub == submenu(item)
    IN IF item = prevItem /\ expanded(s2, item) /\ sub # None /\ s2.act[sub] # None
       THEN ListUnfocus(ItemClose(s2, s2.act[sub], FALSE), sub)
       ELSE s2

\* MenuBarPattern.next / prev: move, then carry the expansion over
BarCarry(s, prevItem, moved) ==
    IF prevItem # None /\ expanded(moved, prevItem)
    THEN LET c == ItemClose(moved, prevItem, FALSE) IN
         IF c.act[Bar] # None THEN ItemOpen(c, c.act[Bar], "first") ELSE c
    ELSE moved

BarNext(s) == BarCarry(s, s.act[Bar], ListNext(s, Bar))
BarPrev(s) == BarCarry(s, s.act[Bar], ListPrev(s, Bar))

\* ------------------------------------------------------------------------
\* MenuPattern.
\* ------------------------------------------------------------------------
\* `root?.inputs.onSelect?.(item.value())`
OnSelect(s, i) == [s EXCEPT !.calls = Append(s.calls, i)]

\* MenuPattern.submit
Submit(s, m, item) ==
    LET r == root(m)
        s0 == [s EXCEPT !.subs = Append(s.subs, item)]
    IN IF item # None /\ ~itemDisabled(item) /\ submenu(item) = None
       THEN IF r = Trigger THEN TriggerClose(s0)
            ELSE IF r = Bar THEN OnSelect(BarClose(s0), item)
            ELSE OnSelect(CloseActive(s0, r, TRUE), item)
       ELSE s0

\* trigger opening the submenu without moving to its first item
MenuTriggerNoFirst(s, m) ==
    LET a == s.act[m] IN
    IF a # None /\ hasPopup(a) THEN ItemOpen(s, a, "none") ELSE Submit(s, m, a)

\* MenuPattern.trigger
MenuTrigger(s, m) ==
    LET a == s.act[m] IN
    IF a # None /\ hasPopup(a) THEN ItemOpen(s, a, "first") ELSE Submit(s, m, a)

\* MenuPattern.collapse
MenuCollapse(s, m) ==
    LET parent == menuParent(m) IN
    IF parent \in Items /\ itemParent(parent) # Bar THEN ItemClose(s, parent, TRUE)
    ELSE IF root(m) = Bar THEN BarPrev(s)
    ELSE s

\* MenuPattern.expand
MenuExpand(s, m) ==
    LET activeItem == s.act[m] IN
    IF activeItem # None /\ submenu(activeItem) # None THEN ItemOpen(s, activeItem, "first")
    ELSE IF root(m) = Bar THEN BarNext(s)
    ELSE s

\* MenuPattern.closeAll
MenuCloseAll(s, m) ==
    LET r == root(m) IN
    IF r = Trigger THEN TriggerClose(s)
    ELSE IF r = Bar THEN BarClose(s)
    ELSE CloseActive(s, r, TRUE)

\* a collapse key that ignores the text direction
collapseKeyUnmirrored(dir) == "ArrowLeft"

\* MenuPattern._expandKey / _collapseKey
expandKey(dir) == IF dir = "rtl" THEN "ArrowLeft" ELSE "ArrowRight"
collapseKey(dir) == IF dir = "rtl" THEN "ArrowRight" ELSE "ArrowLeft"

\* MenuBarPattern._nextKey / _previousKey
nextKey(dir) == IF dir = "rtl" THEN "ArrowLeft" ELSE "ArrowRight"
previousKey(dir) == IF dir = "rtl" THEN "ArrowRight" ELSE "ArrowLeft"

\* MenuPattern.dynamicSpaceKey / MenuBarPattern.dynamicSpaceKey; isTyping is
\* what listBehavior.isTyping() answers when the key is handled
dynamicSpaceKey(isTyping) == IF isTyping THEN "" ELSE " "

\* The keys the model presses; "x" stands for any printable typeahead character.
Keys == {"ArrowDown", "ArrowUp", "Home", "End", "Enter", "Escape",
         "ArrowRight", "ArrowLeft", " ", "x"}

\* typeaheadRegexp /^.$/
IsChar(key) == key \in {" ", "x"}

\* listBehavior.search(key): a leading space is not a query; otherwise the
\* list goes to the item the query matches (hit), if any.
ListSearch(s, l, key, isTyping, hit) ==
    IF key = " " /\ ~isTyping THEN s ELSE ListGoto(s, l, hit)

Searches(key, isTyping) == IsChar(key) /\ ~(key = " " /\ ~isTyping)

\* KeyboardEventManager: an entry matches a key it names, or any single
\* character when it is the typeahead regexp
KeyMatches(k, key) == IF k = "/^.$/" THEN IsChar(key) ELSE k = key

\* KeyboardEventManager.handle: every matching entry's handler runs, in order
Handle(table, key) ==
    LET hit == SelectSeq(table, LAMBDA e : KeyMatches(e[1], key))
    IN [n \in 1..Len(hit) |-> hit[n][2]]

\* The .on(key, handler) entries of MenuPattern.keydownManager, in order,
\* each with the name of the method its handler calls
MenuKeyTable(dir, isTyping) ==
    << <<"ArrowDown", "next">>, <<"ArrowUp", "prev">>, <<"Home", "first">>,
       <<"End", "last">>, <<"Enter", "trigger">>, <<"Escape", "closeAll">>,
       <<expandKey(dir), "expand">>, <<collapseKey(dir), "collapse">>,
       <<dynamicSpaceKey(isTyping), "trigger">>, <<"/^.$/", "search">> >>

\* The entries of MenuBarPattern.keydownManager
BarKeyTable(dir, isTyping) ==
    << <<nextKey(dir), "next">>, <<previousKey(dir), "prev">>, <<"End", "last">>,
       <<"Home", "first">>, <<"Enter", "openFirst">>, <<"ArrowUp", "openLast">>,
       <<"ArrowDown", "openFirst">>, <<dynamicSpaceKey(isTyping), "openFirst">>,
       <<"/^.$/", "search">> >>

\* The handler of one entry of MenuPattern.keydownManager
MenuHandler(s, m, name, key, isTyping, hit) ==
    CASE name = "next" -> MenuNext(s, m)
      [] name = "prev" -> MenuPrev(s, m)
      [] name = "first" -> MenuFirst(s, m)
      [] name = "last" -> MenuLast(s, m)
      [] name = "trigger" -> MenuTrigger(s, m)
      [] name = "closeAll" -> MenuCloseAll(s, m)
      [] name = "expand" -> MenuExpand(s, m)
      [] name = "collapse" -> MenuCollapse(s, m)
      [] name = "search" -> ListSearch(s, m, key, isTyping, hit)

\* MenuPattern.keydownManager handling a key: the handlers of the matching
\* entries run one after the other
RECURSIVE MenuRun(_, _, _, _, _, _)
MenuRun(s, m, names, key, isTyping, hit) ==
    IF names = <<>> THEN s
    ELSE MenuRun(MenuHandler(s, m, Head(names), key, isTyping, hit),
                 m, Tail(names), key, isTyping, hit)

MenuKeydownManager(s, m, key, isTyping, hit) ==
    MenuRun(s, m, Handle(MenuKeyTable(textDirection, isTyping), key), key, isTyping, hit)

\* The handler of one entry of MenuBarPattern.keydownManager
BarHandler(s, name, key, isTyping, hit) ==
    CASE name = "next" -> BarNext(s)
      [] name = "prev" -> BarPrev(s)
      [] name = "last" -> ListLast(s, Bar)
      [] name = "first" -> ListFirst(s, Bar)
      [] name = "openFirst" -> IF s.act[Bar] # None THEN ItemOpen(s, s.act[Bar], "first") ELSE s
      [] name = "openLast" -> IF s.act[Bar] # None THEN ItemOpen(s, s.act[Bar], "last") ELSE s
      [] name = "search" -> ListSearch(s, Bar, key, isTyping, hit)

\* MenuBarPattern.keydownManager handling a key
RECURSIVE BarRun(_, _, _, _, _)
BarRun(s, names, key, isTyping, hit) ==
    IF names = <<>> THEN s
    ELSE BarRun(BarHandler(s, Head(names), key, isTyping, hit), Tail(names), key, isTyping, hit)

BarKeydownManager(s, key, isTyping, hit) ==
    BarRun(s, Handle(BarKeyTable(textDirection, isTyping), key), key, isTyping, hit)

\* MenuTriggerPattern.keydownManager
TriggerKeydownManager(s, key) ==
    IF key \in {" ", "Enter", "ArrowDown"} THEN TriggerOpen(s, "first")
    ELSE IF key = "ArrowUp" THEN TriggerOpen(s, "last")
    ELSE IF key = "Escape" THEN TriggerClose(s)
    ELSE s

\* MenuPattern.onMouseOver; item is the item under the pointer, if any
MenuOnMouseOver(s, m, item) ==
    IF ~visible(s, m) \/ item = None THEN s
    ELSE LET parent == menuParent(m)
             activeItem == s.act[m]
             s1 == IF parent \in Items /\ itemParent(parent) \in Menus
                   THEN ListGoto(ClearTimeouts(s, itemParent(parent)),
                                 itemParent(parent), parent)
                   ELSE s
             s2 == IF activeItem # None /\ activeItem # item
                   THEN CloseItemLater(s1, m, activeItem) ELSE s1
             s3 == IF expanded(s2, item) THEN ClearCloseTimeout(s2, m) ELSE s2
         IN ListGoto(OpenItemLater(s3, m, item), m, item)

\* MenuPattern.onMouseOut; inGrandparent: the pointer went to an element of
\* the menu that holds the parent item
MenuOnMouseOut(s, m, inGrandparent) ==
    LET s1 == ClearOpenTimeout(s, m)
        parent == menuParent(m)
    IN IF isFocused[m] THEN s1
       ELSE IF parent = None \/ parent = Trigger THEN s1
       ELSE IF itemParent(parent) = Bar THEN s1
       ELSE IF ~inGrandparent THEN ItemClose(s1, parent, FALSE)
       ELSE s1

\* MenuPattern.onClick
MenuOnClick(s, m, item) ==
    IF item = None THEN s
    ELSE Submit(ListGoto(ItemOpen(s, item, "none"), m, item), m, item)

\* `this.inputs.parent()?.close(opts)` of a menu
ParentClose(s, m, refocus) ==
    LET parent == menuParent(m) IN
    IF parent = None THEN s
    ELSE IF parent = Trigger THEN TriggerClose(s)
    ELSE ItemClose(s, parent, refocus)

\* MenuPattern.onFocusOut, without its writes of isFocused. rt says where the
\* focus went: "null", "sibling" (another item of the parent's list),
\* "parent" (the parent's element), "self" (this menu) or "outside".
MenuOnFocusOut(s, m, rt) ==
    LET parent == menuParent(m)
        s1 == IF rt = "null" THEN ParentClose(s, m, TRUE) ELSE s
    IN IF parent \in Items /\ rt = "sibling" THEN s1
       ELSE IF visible(s1, m) /\ rt \notin {"parent", "self"}
            THEN ParentClose(s1, m, FALSE)
            ELSE s1

\* Whether MenuPattern.onFocusOut clears isFocused
FocusOutClears(s, m, rt) ==
    \/ rt = "null"
    \/ /\ ~(menuParent(m) \in Items /\ rt = "sibling")
       /\ visible(IF rt = "null" THEN ParentClose(s, m, TRUE) ELSE s, m)
       /\ rt \notin {"parent", "self"}

\* MenuBarPattern.onClick
BarOnClick(s, item) ==
    IF item = None THEN s
    ELSE LET s1 == BarGoto(s, item) IN
         IF expanded(s1, item) THEN ItemClose(s1, item, FALSE)
         ELSE ItemOpen(s1, item, "none")

\* MenuBarPattern.onMouseOver
BarOnMouseOver(s, item) == IF item = None THEN s ELSE BarGoto(s, item)

\* ------------------------------------------------------------------------
\* The menu state machine: one action per event handler.
\* ------------------------------------------------------------------------
\* The items that may be disabled; every list keeps a focusable item.
\* The input fixtures: which items are disabled, whether disabled items stay
\* focusable, and the text direction. Every list keeps a focusable item.
Fixtures == {[disabled |-> {}, soft |-> TRUE, dir |-> "ltr"],
             [disabled |-> {"a1", "b2"}, soft |-> TRUE, dir |-> "rtl"],
             [disabled |-> {"a1", "b1"}, soft |-> FALSE, dir |-> "ltr"]}

\* Bounds on what the environment does at once: pending hover timers and
\* lists holding the keyboard focus.
MaxTimers == 2
MaxFocused == 1

Count(f) == Cardinality({l \in DOMAIN f : f[l]})

\* The record of the last handler. Only the handlers the properties of a
\* specification speak about are told apart.
Did(op, l, i, k) ==
    IF op \in watch THEN [op |-> op, l |-> l, i |-> i, k |-> k]
    ELSE [op |-> "other", l |-> None, i |-> None, k |-> None]

InitWith(size, fixtures, watched) ==
    /\ watch = watched
    /\ tree = size
    /\ rootKind \in RootKinds
    /\ \E f \in fixtures :
          /\ softDisabled = f.soft
          /\ disabled = [i \in Items |-> i \in f.disabled]
          /\ textDirection = f.dir
    /\ expandedRaw = [i \in Items |-> FALSE]
    /\ active = [l \in Menus \cup {Bar} |-> None]
    /\ isFocused = [l \in Menus \cup {Bar} |-> FALSE]
    /\ trigExpanded = FALSE
    /\ openTimeout = [m \in Menus |-> 0]
    /\ closeTimeout = [m \in Menus |-> 0]
    /\ timers = <<>>
    /\ calls = <<>>
    /\ submits = <<>>
    /\ last = [op |-> "other", l |-> None, i |-> None, k |-> None]

MenuInit == InitWith("full", Fixtures, {"Enter", " ", "Escape", "click", "item.close"})

Inputs == <<watch, rootKind, tree, softDisabled, disabled, textDirection,
            keyVars, drawerVars, loaderVars,
            playerVars,
            radioVars,
            tabsVars,
            treeVars,
            listVars,
            sidenavVars,
            docsVars>>

\* What the pointer can be over / the focus can go to in list l.
Targets(l) == Range(itemsOf(l)) \cup {None}

\* What isTyping() may answer when a key arrives: a query under way matters
\* to the space key only.
TypingWhen(key) == IF key = " " THEN BOOLEAN ELSE {FALSE}

\* The items a typeahead query may match.
Hits(l, key, isTyping) == IF Searches(key, isTyping) THEN Targets(l) ELSE {None}

\* MenuPattern.setDefaultState
MenuSetDefaultState(m) ==
    /\ m \in LiveMenus
    /\ Commit(IF menuParent(m) = None THEN ListGoto(Cur, m, itemsOf(m)[1]) ELSE Cur)
    /\ last' = Did("setDefaultState", m, None, None)
    /\ UNCHANGED <<Inputs, isFocused>>

\* MenuPattern.onKeydown, on a menu that is shown
MenuOnKeydown(m, keys) ==
    /\ m \in LiveMenus /\ visible(Cur, m)
    /\ \E key \in keys : \E isTyping \in TypingWhen(key) :
       \E hit \in Hits(m, key, isTyping) :
          /\ Commit(MenuKeydownManager(Cur, m, key, isTyping, hit))
          /\ last' = Did(IF Searches(key, isTyping) THEN "typeahead" ELSE key,
                         m, active[m], None)
    /\ UNCHANGED <<Inputs, isFocused>>

\* MenuPattern.onMouseOver
MenuMouseOver(m, item) ==
    /\ m \in LiveMenus /\ item \in Targets(m)
    /\ Len(MenuOnMouseOver(Cur, m, item).tm) <= MaxTimers
    /\ Commit(MenuOnMouseOver(Cur, m, item))
    /\ last' = Did("mouseover", m, item, None)
    /\ UNCHANGED <<Inputs, isFocused>>

\* MenuPattern.onMouseOut
MenuMouseOut(m, inGrandparent) ==
    /\ m \in LiveMenus
    /\ Commit(MenuOnMouseOut(Cur, m, inGrandparent))
    /\ last' = Did("mouseout", m, None, None)
    /\ UNCHANGED <<Inputs, isFocused>>

\* MenuPattern.onClick, on a menu that is shown
MenuClick(m, item) ==
    /\ m \in LiveMenus /\ visible(Cur, m) /\ item \in Targets(m)
    /\ Commit(MenuOnClick(Cur, m, item))
    /\ last' = Did("click", m, item, None)
    /\ UNCHANGED <<Inputs, isFocused>>

\* MenuPattern.onFocusIn
MenuFocusIn(m) ==
    /\ m \in LiveMenus /\ visible(Cur, m)
    /\ ~isFocused[m] => Count(isFocused) < MaxFocused
    /\ isFocused' = [isFocused EXCEPT ![m] = TRUE]
    /\ Commit(Cur)
    /\ last' = Did("focusin", m, None, None)
    /\ UNCHANGED Inputs

\* MenuPattern.onFocusOut
MenuFocusOut(m, rt) ==
    /\ m \in LiveMenus /\ isFocused[m]
    /\ Commit(MenuOnFocusOut(Cur, m, rt))
    /\ isFocused' = [isFocused EXCEPT ![m] = @ /\ ~FocusOutClears(Cur, m, rt)]
    /\ last' = Did("focusout", m, None, rt)
    /\ UNCHANGED Inputs

\* MenuItemPattern.close, called on the pattern
ItemCloseCall(i, refocus) ==
    /\ i \in LiveItems
    /\ Commit(ItemClose(Cur, i, refocus))
    /\ last' = Did("item.close", itemParent(i), i,
                   [refocus |-> refocus,
                    deep |-> \E j \in Below(i) : expanded(Cur, j) /\ active[submenu(j)] # None])
    /\ UNCHANGED <<Inputs, isFocused>>

\* MenuTriggerPattern.onKeydown
TriggerOnKeydown(key) ==
    /\ rootKind = "trigger"
    /\ Commit(TriggerKeydownManager(Cur, key))
    /\ last' = Did("trigger." \o key, Trigger, None, None)
    /\ UNCHANGED <<Inputs, isFocused>>

\* MenuTriggerPattern.onClick
TriggerOnClick ==
    /\ rootKind = "trigger"
    /\ Commit(IF trigExpanded THEN TriggerClose(Cur) ELSE TriggerOpen(Cur, "first"))
    /\ last' = Did("trigger.click", Trigger, None, trigExpanded)
    /\ UNCHANGED <<Inputs, isFocused>>

\* MenuTriggerPattern.onFocusOut; inside: the focus stayed in the trigger or
\* went to its menu
TriggerOnFocusOut(inside) ==
    /\ rootKind = "trigger"
    /\ Commit(IF trigExpanded /\ ~inside THEN TriggerClose(Cur) ELSE Cur)
    /\ last' = Did("trigger.focusout", Trigger, None, inside)
    /\ UNCHANGED <<Inputs, isFocused>>

\* MenuBarPattern.setDefaultState
BarSetDefaultState ==
    /\ rootKind = "menubar"
    /\ Commit([Cur EXCEPT !.act[Bar] = itemsOf(Bar)[1]])
    /\ last' = Did("setDefaultState", Bar, None, None)
    /\ UNCHANGED <<Inputs, isFocused>>

\* MenuBarPattern.onKeydown
BarOnKeydown ==
    /\ rootKind = "menubar"
    /\ \E key \in Keys : \E isTyping \in TypingWhen(key) :
       \E hit \in Hits(Bar, key, isTyping) :
          /\ Commit(BarKeydownManager(Cur, key, isTyping, hit))
          /\ last' = Did("bar." \o key, Bar, active[Bar], None)
    /\ UNCHANGED <<Inputs, isFocused>>

\* MenuBarPattern.onClick
BarClick(item) ==
    /\ rootKind = "menubar" /\ item \in Targets(Bar)
    /\ Commit(BarOnClick(Cur, item))
    /\ last' = Did("bar.click", Bar, item, None)
    /\ UNCHANGED <<Inputs, isFocused>>

\* MenuBarPattern.onMouseOver
BarMouseOver(item) ==
    /\ rootKind = "menubar" /\ item \in Targets(Bar)
    /\ Commit(BarOnMouseOver(Cur, item))
    /\ last' = Did("bar.mouseover", Bar, item, None)
    /\ UNCHANGED <<Inputs, isFocused>>

\* MenuBarPattern.onFocusIn
BarFocusIn ==
    /\ rootKind = "menubar"
    /\ ~isFocused[Bar] => Count(isFocused) < MaxFocused
    /\ isFocused' = [isFocused EXCEPT ![Bar] = TRUE]
    /\ Commit(Cur)
    /\ last' = Did("bar.focusin", Bar, None, None)
    /\ UNCHANGED Inputs

\* MenuBarPattern.onFocusOut; inside: the focus stayed in the menubar element.
\* close() reads isFocused after it was cleared.
BarFocusOut(inside) ==
    /\ rootKind = "menubar" /\ isFocused[Bar]
    /\ isFocused' = [isFocused EXCEPT ![Bar] = inside]
    /\ Commit(IF inside THEN Cur ELSE CloseActive(Cur, Bar, FALSE))
    /\ last' = Did("bar.focusout", Bar, None, inside)
    /\ UNCHANGED Inputs

\* The oldest pending timer fires: the callbacks of _openItem and _closeItem.
TimerFire ==
    /\ Len(timers) > 0
    /\ LET t == Head(timers)
           s0 == [Cur EXCEPT !.tm = Tail(timers)]
       IN /\ Commit(IF t.kind = "open"
                    THEN [ItemOpen(s0, t.item, "none") EXCEPT !.ot[t.menu] = 0]
                    ELSE [ItemClose(s0, t.item, FALSE) EXCEPT !.ct[t.menu] = 0])
          /\ last' = Did("timer." \o t.kind, t.menu, t.item, None)
    /\ UNCHANGED <<Inputs, isFocused>>

\* The menu patterns at rest: a standalone menu nothing has happened to.
MenuIdle ==
    /\ InitWith("small", {f \in Fixtures : f.disabled = {}}, {})
    /\ rootKind = "menu"

\* ------------------------------------------------------------------------
\* The direction keys of MenuPattern, MenuBarPattern and TabListPattern.
\* ------------------------------------------------------------------------
\* TabListPattern.prevKey / nextKey
prevKey(orientation, dir) ==
    IF orientation = "vertical" THEN "ArrowUp"
    ELSE IF dir = "rtl" THEN "ArrowRight" ELSE "ArrowLeft"

tabNextKey(orientation, dir) ==
    IF orientation = "vertical" THEN "ArrowDown"
    ELSE IF dir = "rtl" THEN "ArrowLeft" ELSE "ArrowRight"

\* The entries of TabListPattern.keydown
TabKeyTable(orientation, dir) ==
    << <<prevKey(orientation, dir), "prev">>, <<tabNextKey(orientation, dir), "next">>,
       <<"Home", "first">>, <<"End", "last">>, <<" ", "open">>, <<"Enter", "open">> >>

KeysInit ==
    /\ kbDir \in {"ltr", "rtl"}
    /\ kbOrientation \in {"horizontal", "vertical"}
    /\ kbWidget = None /\ kbKey = None /\ kbRan = <<>>

KeysIdle ==
    /\ kbDir = "ltr" /\ kbOrientation = "horizontal"
    /\ kbWidget = None /\ kbKey = None /\ kbRan = <<>>

notKeys == <<menuVars, drawerVars, loaderVars, playerVars, radioVars, tabsVars, treeVars, listVars, sidenavVars, docsVars>>
notDrawers == <<menuVars, keyVars, loaderVars, playerVars, radioVars, tabsVars, treeVars, listVars, sidenavVars, docsVars>>
notLoader == <<menuVars, keyVars, drawerVars, playerVars, radioVars, tabsVars, treeVars, listVars, sidenavVars, docsVars>>
notPlayer == <<menuVars, keyVars, drawerVars, radioVars, tabsVars, treeVars, listVars, sidenavVars, docsVars>>
notRadio == <<menuVars, keyVars, drawerVars, loaderVars, playerVars, tabsVars, treeVars, listVars, sidenavVars, docsVars>>
notTabs == <<menuVars, keyVars, drawerVars, loaderVars, playerVars, radioVars, treeVars, listVars, sidenavVars, docsVars>>
notTree == <<menuVars, keyVars, drawerVars, loaderVars, playerVars, radioVars, tabsVars, listVars, sidenavVars, docsVars>>
notList == <<menuVars, keyVars, drawerVars, loaderVars, playerVars, radioVars, tabsVars, treeVars, sidenavVars, docsVars>>
notSidenav == <<menuVars, keyVars, drawerVars, loaderVars, playerVars, radioVars, tabsVars, treeVars, listVars, docsVars>>
notDocs == <<menuVars, keyVars, drawerVars, loaderVars, playerVars, radioVars, tabsVars, treeVars, listVars, sidenavVars>>

\* The textDirection input changes
KeysSetTextDirection(d) ==
    /\ d # kbDir
    /\ kbDir' = d
    /\ kbWidget' = None /\ kbKey' = None /\ kbRan' = <<>>
    /\ UNCHANGED <<kbOrientation, notKeys>>

\* The orientation input of the tablist changes
KeysSetOrientation(o) ==
    /\ o # kbOrientation
    /\ kbOrientation' = o
    /\ kbWidget' = None /\ kbKey' = None /\ kbRan' = <<>>
    /\ UNCHANGED <<kbDir, notKeys>>

\* MenuPattern.onKeydown, as far as which handlers run
KeysMenuKeydown(key, isTyping) ==
    /\ kbWidget' = "menu" /\ kbKey' = key
    /\ kbRan' = Handle(MenuKeyTable(kbDir, isTyping), key)
    /\ UNCHANGED <<kbDir, kbOrientation, notKeys>>

\* MenuBarPattern.onKeydown, as far as which handlers run
KeysBarKeydown(key, isTyping) ==
    /\ kbWidget' = "menubar" /\ kbKey' = key
    /\ kbRan' = Handle(BarKeyTable(kbDir, isTyping), key)
    /\ UNCHANGED <<kbDir, kbOrientation, notKeys>>

\* TabListPattern.onKeydown, as far as which handlers run
KeysTabKeydown(key) ==
    /\ kbWidget' = "tablist" /\ kbKey' = key
    /\ kbRan' = Handle(TabKeyTable(kbOrientation, kbDir), key)
    /\ UNCHANGED <<kbDir, kbOrientation, notKeys>>

NextKeys ==
    \/ \E d \in {"ltr", "rtl"} : KeysSetTextDirection(d)
    \/ \E o \in {"horizontal", "vertical"} : KeysSetOrientation(o)
    \/ \E key \in Keys : \E isTyping \in TypingWhen(key) : KeysMenuKeydown(key, isTyping)
    \/ \E key \in Keys : \E isTyping \in TypingWhen(key) : KeysBarKeydown(key, isTyping)
    \/ \E key \in Keys : KeysTabKeydown(key)

\* ------------------------------------------------------------------------
\* MatDrawerContainer: validation of the drawers.
\* ------------------------------------------------------------------------
\* The most drawers a container is given.
MaxDrawers == 3

Positions == {"start", "end"}

\* throwMatDuplicatedDrawerError: the message of the error it throws
throwMatDuplicatedDrawerError(position) ==
    "A drawer was already declared for 'position=\"" \o position \o "\"'"

\* a dev-mode test that takes an undefined ngDevMode for production
InDevModeWhenDefined(v) == v = "true"

\* (typeof ngDevMode === 'undefined' || ngDevMode)
InDevMode(v) == v = "undefined" \/ v = "true"

\* The forEach of _validateDrawers from drawer k on, _start and _end being
\* st and en: the fields as the loop leaves them, and the error that ended it
RECURSIVE ValidateLoop(_, _, _, _, _)
ValidateLoop(ds, k, st, en, dev) ==
    IF k > Len(ds) THEN [start |-> st, end |-> en, thrown |-> None]
    ELSE IF ds[k].position = "end"
         THEN IF en # 0 /\ InDevMode(dev)
              THEN [start |-> st, end |-> en, thrown |-> throwMatDuplicatedDrawerError("end")]
              ELSE ValidateLoop(ds, k + 1, st, ds[k].id, dev)
         ELSE IF st # 0 /\ InDevMode(dev)
              THEN [start |-> st, end |-> en, thrown |-> throwMatDuplicatedDrawerError("start")]
              ELSE ValidateLoop(ds, k + 1, ds[k].id, en, dev)

\* MatDrawerContainer._validateDrawers on drawers ds under text direction
\* dir: the new _start, _end, _left and _right; an error leaves _left and
\* _right as they were
ValidateDrawers(ds, dir) ==
    LET r == ValidateLoop(ds, 1, 0, 0, ngDevMode)
    IN /\ startDrawer' = r.start
       /\ endDrawer' = r.end
       /\ thrown' = r.thrown
       /\ leftDrawer' = IF r.thrown # None THEN leftDrawer
                        ELSE IF dir = "rtl" THEN r.end ELSE r.start
       /\ rightDrawer' = IF r.thrown # None THEN rightDrawer
                         ELSE IF dir = "rtl" THEN r.start ELSE r.end

DrawerInit ==
    /\ drawers = <<>>
    /\ dirValue \in {None, "ltr", "rtl"}
    /\ ngDevMode \in {"undefined", "true", "false"}
    /\ startDrawer = 0 /\ endDrawer = 0 /\ leftDrawer = 0 /\ rightDrawer = 0
    /\ thrown = None /\ renderPending = FALSE /\ validated = FALSE

DrawerIdle ==
    /\ drawers = <<>> /\ dirValue = None /\ ngDevMode = "undefined"
    /\ startDrawer = 0 /\ endDrawer = 0 /\ leftDrawer = 0 /\ rightDrawer = 0
    /\ thrown = None /\ renderPending = FALSE /\ validated = FALSE

DrawerIds(ds) == {ds[k].id : k \in 1..Len(ds)}

\* _drawers.changes: a drawer with the given position was added to the
\* content after the k-th drawer
DrawerAdded(k, position) ==
    /\ Len(drawers) < MaxDrawers
    /\ k \in 0..Len(drawers)
    /\ LET id == CHOOSE n \in 1..MaxDrawers : /\ n \notin DrawerIds(drawers)
                                              /\ \A j \in 1..(n - 1) : j \in DrawerIds(drawers)
           ds == SubSeq(drawers, 1, k) \o <<[id |-> id, position |-> position]>>
                    \o SubSeq(drawers, k + 1, Len(drawers))
       IN /\ drawers' = ds
          /\ ValidateDrawers(ds, dirValue)
    /\ validated' = TRUE
    /\ UNCHANGED <<dirValue, ngDevMode, renderPending, notDrawers>>

\* _drawers.changes: the k-th drawer was removed from the content
DrawerRemoved(k) ==
    /\ k \in 1..Len(drawers)
    /\ LET ds == SubSeq(drawers, 1, k - 1) \o SubSeq(drawers, k + 1, Len(drawers))
       IN /\ drawers' = ds
          /\ ValidateDrawers(ds, dirValue)
    /\ validated' = TRUE
    /\ UNCHANGED <<dirValue, ngDevMode, renderPending, notDrawers>>

\* MatDrawer.position is set to the other side: onPositionChanged emits and
\* the container schedules a validation after the next render
DrawerSetPosition(k) ==
    /\ k \in 1..Len(drawers)
    /\ drawers' = [drawers EXCEPT ![k].position =
                      IF drawers[k].position = "end" THEN "start" ELSE "end"]
    /\ renderPending' = TRUE
    /\ validated' = FALSE
    /\ UNCHANGED <<dirValue, ngDevMode, startDrawer, endDrawer, leftDrawer, rightDrawer,
                   thrown, notDrawers>>

\* The afterNextRender callback of a position change
DrawerAfterNextRender ==
    /\ renderPending
    /\ renderPending' = FALSE
    /\ ValidateDrawers(drawers, dirValue)
    /\ validated' = TRUE
    /\ UNCHANGED <<drawers, dirValue, ngDevMode, notDrawers>>

\* _dir.change: the text direction flips
DrawerDirChange ==
    /\ dirValue # None
    /\ dirValue' = IF dirValue = "rtl" THEN "ltr" ELSE "rtl"
    /\ ValidateDrawers(drawers, IF dirValue = "rtl" THEN "ltr" ELSE "rtl")
    /\ validated' = TRUE
    /\ UNCHANGED <<drawers, ngDevMode, renderPending, notDrawers>>

NextDrawers ==
    \/ \E k \in 0..MaxDrawers, p \in Positions : DrawerAdded(k, p)
    \/ \E k \in 1..MaxDrawers : DrawerRemoved(k)
    \/ \E k \in 1..MaxDrawers : DrawerSetPosition(k)
    \/ DrawerAfterNextRender
    \/ DrawerDirChange

\* ------------------------------------------------------------------------
\* YouTubeApiLoaderService.
\* ------------------------------------------------------------------------
\* The most calls of load() the application makes.
MaxLoads == 4

\* The size of the replay buffer: new ReplaySubject<void>(1)
BufferSize == 1

FailedToLoad == "Failed to load YouTube API"

\* What a subscriber is sent: a value reaches it only while it is live
Deliver(o) == IF o.end = None THEN [o EXCEPT !.values = @ + 1] ELSE o
Finish(o, how) == IF o.end = None THEN [o EXCEPT !.end = how] ELSE o

\* ReplaySubject.next: ignored once the subject has stopped; otherwise the
\* value is buffered (the buffer keeps the last BufferSize values) and sent
\* to the live subscribers. st is <<loading$, subscribers>>.
SubjectNext(st) ==
    IF st[1].end # None THEN st
    ELSE LET b == Append(st[1].buffer, "void")
         IN << [st[1] EXCEPT !.buffer =
                   IF Len(b) > BufferSize THEN SubSeq(b, Len(b) - BufferSize + 1, Len(b)) ELSE b],
               [n \in 1..Len(st[2]) |-> Deliver(st[2][n])] >>

\* ReplaySubject.complete
SubjectComplete(st) ==
    IF st[1].end # None THEN st
    ELSE << [st[1] EXCEPT !.end = "complete"],
            [n \in 1..Len(st[2]) |-> Finish(st[2][n], "complete")] >>

\* ReplaySubject.error
SubjectError(st, err) ==
    IF st[1].end # None THEN st
    ELSE << [st[1] EXCEPT !.end = err],
            [n \in 1..Len(st[2]) |-> Finish(st[2][n], err)] >>

\* ReplaySubject.subscribe: the buffered values are replayed, then the end
\* of the subject, if it has one
SubjectSubscribe(subj) == [values |-> Len(subj.buffer), end |-> subj.end]

AnyFailed == \E k \in 1..Len(scripts) : scripts[k] = "failed"

LoaderInit ==
    /\ loaded = FALSE
    /\ loading = [buffer |-> <<>>, end |-> None]
    /\ scripts = <<>>
    /\ observers = <<>>

LoaderIdle == LoaderInit

\* YouTubeApiLoaderService.load(), whose result the caller subscribes to.
\* A subscriber remembers whether a load had failed before its call
\* (afterFailure) and whether a script fired its error event after it
\* (sawFailure).
Load ==
    /\ Len(observers) < MaxLoads
    /\ scripts' = IF loaded THEN scripts ELSE Append(scripts, "pending")
    /\ observers' = Append(observers,
                           [values |-> SubjectSubscribe(loading).values,
                            end |-> SubjectSubscribe(loading).end,
                            afterFailure |-> AnyFailed, sawFailure |-> FALSE])
    /\ UNCHANGED <<loaded, loading, notLoader>>

\* script.onload of the k-th script injected
ScriptOnload(k) ==
    /\ k \in 1..Len(scripts) /\ scripts[k] = "pending"
    /\ scripts' = [scripts EXCEPT ![k] = "loaded"]
    /\ loaded' = TRUE
    /\ LET st == SubjectComplete(SubjectNext(<<loading, observers>>))
       IN loading' = st[1] /\ observers' = st[2]
    /\ UNCHANGED notLoader

\* script.onerror of the k-th script injected
ScriptOnerror(k) ==
    /\ k \in 1..Len(scripts) /\ scripts[k] = "pending"
    /\ scripts' = [scripts EXCEPT ![k] = "failed"]
    /\ loaded' = FALSE
    /\ LET st == SubjectError(<<loading, observers>>, FailedToLoad)
       IN /\ loading' = st[1]
          /\ observers' = [n \in 1..Len(st[2]) |-> [st[2][n] EXCEPT !.sawFailure = TRUE]]
    /\ UNCHANGED notLoader

NextLoader ==
    \/ Load
    \/ \E k \in 1..MaxLoads : ScriptOnload(k)
    \/ \E k \in 1..MaxLoads : ScriptOnerror(k)

\* ------------------------------------------------------------------------
\* YouTubePlayerComponent, its YouTubePlayerFacade and the API loader it
\* shares.  Every subscriber of the loader is a load() of the component.
\* ------------------------------------------------------------------------
\* YouTubePlayerFacade.create, run n times in a row: every run constructs a
\* YT.Player and stores it in this.player; the player stored before is
\* neither destroyed nor remembered.  pl is <<player, players>>.
FacadeCreate(pl, n) ==
    IF n = 0 THEN pl
    ELSE << Len(pl[2]) + n, pl[2] \o [k \in 1..n |-> "alive"] >>

\* YouTubePlayerFacade.destroy
FacadeDestroy(pl) ==
    << 0, IF pl[1] # 0 THEN [pl[2] EXCEPT ![pl[1]] = "destroyed"] ELSE pl[2] >>

\* How many of the subscribers were sent a value between before and after:
\* the callback passed to subscribe runs once for each
Delivered(before, after) ==
    Cardinality({n \in 1..Len(before) : after[n].values > before[n].values})

PlayerInit ==
    /\ showPlaceholder \in BOOLEAN
    /\ facadePlayer = 0
    /\ ytPlayers = <<>>
    /\ componentDestroyed = FALSE

PlayerIdle ==
    /\ showPlaceholder = TRUE
    /\ facadePlayer = 0
    /\ ytPlayers = <<>>
    /\ componentDestroyed = FALSE

\* YouTubePlayerComponent.load: the loader's load() and the subscription to
\* its result; the values the subject replays reach the callback at once.
ComponentLoad ==
    /\ ~componentDestroyed
    /\ Len(observers) < MaxLoads
    /\ showPlaceholder' = FALSE
    /\ scripts' = IF loaded THEN scripts ELSE Append(scripts, "pending")
    /\ LET o == SubjectSubscribe(loading)
           pl == FacadeCreate(<<facadePlayer, ytPlayers>>, o.values)
       IN /\ observers' = Append(observers,
                                 [values |-> o.values, end |-> o.end,
                                  afterFailure |-> AnyFailed, sawFailure |-> FALSE])
          /\ facadePlayer' = pl[1]
          /\ ytPlayers' = pl[2]
    /\ UNCHANGED <<loaded, loading, componentDestroyed, notPlayer>>

\* script.onload of the k-th script: the value goes to every live subscriber,
\* whose callback creates a player, whether or not the component is still
\* there (load() keeps no Subscription to unsubscribe).
ComponentScriptOnload(k) ==
    /\ k \in 1..Len(scripts) /\ scripts[k] = "pending"
    /\ scripts' = [scripts EXCEPT ![k] = "loaded"]
    /\ loaded' = TRUE
    /\ LET st == SubjectComplete(SubjectNext(<<loading, observers>>))
           pl == FacadeCreate(<<facadePlayer, ytPlayers>>, Delivered(observers, st[2]))
       IN /\ loading' = st[1] /\ observers' = st[2]
          /\ facadePlayer' = pl[1]
          /\ ytPlayers' = pl[2]
    /\ UNCHANGED <<showPlaceholder, componentDestroyed, notPlayer>>

\* script.onerror of the k-th script: the subscribers get the error, for
\* which load() passes no callback
ComponentScriptOnerror(k) ==
    /\ k \in 1..Len(scripts) /\ scripts[k] = "pending"
    /\ scripts' = [scripts EXCEPT ![k] = "failed"]
    /\ loaded' = FALSE
    /\ LET st == SubjectError(<<loading, observers>>, FailedToLoad)
       IN /\ loading' = st[1]
          /\ observers' = [n \in 1..Len(st[2]) |-> [st[2][n] EXCEPT !.sawFailure = TRUE]]
    /\ UNCHANGED <<playerVars, notPlayer>>

\* YouTubePlayerComponent.ngOnDestroy
NgOnDestroy ==
    /\ ~componentDestroyed
    /\ componentDestroyed' = TRUE
    /\ LET pl == FacadeDestroy(<<facadePlayer, ytPlayers>>)
       IN facadePlayer' = pl[1] /\ ytPlayers' = pl[2]
    /\ UNCHANGED <<showPlaceholder, loaderVars, notPlayer>>

NextPlayer ==
    \/ ComponentLoad
    \/ \E k \in 1..MaxLoads : ComponentScriptOnload(k)
    \/ \E k \in 1..MaxLoads : ComponentScriptOnerror(k)
    \/ NgOnDestroy

\* ------------------------------------------------------------------------
\* MatRadioGroup and MatRadioButton.  The radio buttons are either all
\* inside one group or all on their own, sharing a name.
\* ------------------------------------------------------------------------
\* The most radio buttons there are at a time.
MaxRadios == 3

Radios == 1..MaxRadios
RadioValues == {None, "a", "b"}     \* None is null, the value of a radio without [value]
GroupName == "mat-radio-group-0"
OwnName == "own"

\* The radio buttons of S in content order
InOrder(S) == SelectSeq([k \in Radios |-> k], LAMBDA x : x \in S)

\* The state the setters work on
RadioCur ==
    [checked |-> rChecked, value |-> rValue, name |-> rName, listeners |-> listeners,
     gValue |-> gValue, gSelected |-> gSelected, gRadios |-> gRadios,
     rc |-> <<>>, gc |-> <<>>, cva |-> <<>>]

\* MatRadioButton.disabled
radioDisabled(r) == r \in rDisabled \/ (hasGroup /\ gDisabled)

RECURSIVE checkedSet(_, _, _)
RECURSIVE groupValueSet(_, _)
RECURSIVE groupSelectedSet(_, _)
RECURSIVE NotifyLoop(_, _, _, _)
RECURSIVE ForEachRadio(_, _)

\* A group that never checks its selected radio button
CheckSelectedRadioButtonSkipped(s) == s

\* MatRadioGroup._checkSelectedRadioButton
CheckSelectedRadioButton(s) ==
    IF s.gSelected # 0 /\ ~s.checked[s.gSelected]
    THEN checkedSet(s, s.gSelected, TRUE)
    ELSE s

\* MatRadioButton._updateRadioGroupSelection
UpdateRadioGroupSelection(s, r, isChecked) ==
    IF isChecked /\ hasGroup /\ s.gValue # s.value[r] THEN groupSelectedSet(s, r)
    ELSE IF ~isChecked /\ hasGroup /\ s.gValue = s.value[r] THEN groupSelectedSet(s, 0)
    ELSE s

\* UniqueSelectionDispatcher.notify(id, name): every listener is called,
\* in the order they registered; the listener of MatRadioButton
\* (_setupUniqueSelectionListener) unchecks its radio button when the name
\* is its own and the id is not.
NotifyLoop(s, id, name, k) ==
    IF k > Len(s.listeners) THEN s
    ELSE LET q == s.listeners[k]
         IN NotifyLoop(IF id # q /\ name = s.name[q] THEN checkedSet(s, q, FALSE) ELSE s,
                       id, name, k + 1)

\* MatRadioButton._notifyOtherRadiosIfChecked
NotifyOtherRadiosIfChecked(s, r, isChecked) ==
    IF isChecked THEN NotifyLoop(s, r, s.name[r], 1) ELSE s

\* set MatRadioButton.checked
checkedSet(s, r, v) ==
    IF s.checked[r] = v THEN s
    ELSE NotifyOtherRadiosIfChecked(
             UpdateRadioGroupSelection([s EXCEPT !.checked[r] = v], r, v), r, v)

\* The forEach of MatRadioGroup._updateSelectedRadioFromValue, from the
\* k-th radio button of _radios on
ForEachRadio(s, k) ==
    IF k > Len(s.gRadios) THEN s
    ELSE LET r == s.gRadios[k]
             s1 == checkedSet(s, r, s.gValue = s.value[r])
         IN ForEachRadio(IF s1.checked[r] THEN [s1 EXCEPT !.gSelected = r] ELSE s1, k + 1)

\* MatRadioGroup._updateSelectedRadioFromValue; _radios is defined from
\* the moment the content is initialized
UpdateSelectedRadioFromValue(s) ==
    LET isAlreadySelected == s.gSelected # 0 /\ s.value[s.gSelected] = s.gValue
    IN IF gIsInitialized /\ ~isAlreadySelected
       THEN ForEachRadio([s EXCEPT !.gSelected = 0], 1)
       ELSE s

\* set MatRadioGroup.value
groupValueSet(s, newValue) ==
    IF s.gValue # newValue
    THEN CheckSelectedRadioButton(UpdateSelectedRadioFromValue([s EXCEPT !.gValue = newValue]))
    ELSE s

\* set MatRadioGroup.selected
groupSelectedSet(s, selected) ==
    LET s1 == [s EXCEPT !.gSelected = selected]
    IN CheckSelectedRadioButton(
           groupValueSet(s1, IF selected # 0 THEN s1.value[selected] ELSE None))

\* MatRadioButton._syncWithRadioGroup
SyncWithRadioGroup(s, r) ==
    IF hasGroup
    THEN LET s1 == IF ~s.checked[r] THEN checkedSet(s, r, s.gValue = s.value[r]) ELSE s
         IN IF s1.checked[r] THEN groupSelectedSet(s1, r) ELSE s1
    ELSE s

\* set MatRadioButton.value
valueSet(s, r, v) ==
    IF s.value[r] # v THEN SyncWithRadioGroup([s EXCEPT !.value[r] = v], r) ELSE s

\* MatRadioButton._initializeWithRadioGroup
InitializeWithRadioGroup(s, r) ==
    IF hasGroup
    THEN LET s1 == checkedSet(s, r, s.gValue = s.value[r])
             s2 == IF s1.checked[r] THEN groupSelectedSet(s1, r) ELSE s1
         IN [s2 EXCEPT !.name[r] = GroupName]
    ELSE s

\* MatRadioButton._setupUniqueSelectionListener
SetupUniqueSelectionListener(s, r) == [s EXCEPT !.listeners = Append(@, r)]

\* MatRadioButton.ngOnInit
RadioNgOnInit(s, r) == SetupUniqueSelectionListener(InitializeWithRadioGroup(s, r), r)

\* MatRadioGroup._emitChangeEvent
GroupEmitChangeEvent(s) ==
    IF gIsInitialized THEN [s EXCEPT !.gc = Append(@, s.gValue)] ELSE s

\* MatRadioButton._onInputInteraction
OnInputInteraction(s, r) ==
    IF ~s.checked[r] /\ ~radioDisabled(r)
    THEN LET groupValueChanged == hasGroup /\ s.value[r] # s.gValue
             s1 == checkedSet(s, r, TRUE)
             s2 == [s1 EXCEPT !.rc = Append(@, r)]
         IN IF hasGroup
            THEN LET s3 == [s2 EXCEPT !.cva = Append(@, s2.value[r])]
                 IN IF groupValueChanged THEN GroupEmitChangeEvent(s3) ELSE s3
            ELSE s2
    ELSE s

\* The handler of _radios.changes set up by ngAfterContentInit
RadiosChanged(s) ==
    IF s.gSelected # 0 /\ ~(\E k \in 1..Len(s.gRadios) : s.gRadios[k] = s.gSelected)
    THEN [s EXCEPT !.gSelected = 0]
    ELSE s

RadioCommit(s, op, r) ==
    /\ rChecked' = s.checked /\ rValue' = s.value /\ rName' = s.name
    /\ listeners' = s.listeners
    /\ gValue' = s.gValue /\ gSelected' = s.gSelected /\ gRadios' = s.gRadios
    /\ radioChanges' = s.rc /\ groupChanges' = s.gc /\ cvaCalls' = s.cva
    /\ radioOp' = IF op = "interaction" THEN [op |-> op, r |-> r]
                  ELSE [op |-> "other", r |-> 0]

RadioInit ==
    /\ hasGroup \in BOOLEAN
    /\ rPresent = {}
    /\ rChecked = [r \in Radios |-> FALSE]
    /\ rValue = [r \in Radios |-> None]
    /\ rName = [r \in Radios |-> ""]
    /\ rDisabled \in {{}, {1}}
    /\ listeners = <<>>
    /\ gValue \in (IF hasGroup THEN {None, "a"} ELSE {None})
    /\ gSelected = 0
    /\ gIsInitialized = FALSE
    /\ gDisabled = FALSE
    /\ gRadios = <<>>
    /\ radioChanges = <<>> /\ groupChanges = <<>> /\ cvaCalls = <<>>
    /\ radioOp = [op |-> "other", r |-> 0]

RadioIdle ==
    /\ hasGroup = TRUE
    /\ rPresent = {}
    /\ rChecked = [r \in Radios |-> FALSE]
    /\ rValue = [r \in Radios |-> None]
    /\ rName = [r \in Radios |-> ""]
    /\ rDisabled = {}
    /\ listeners = <<>>
    /\ gValue = None
    /\ gSelected = 0
    /\ gIsInitialized = FALSE
    /\ gDisabled = FALSE
    /\ gRadios = <<>>
    /\ radioChanges = <<>> /\ groupChanges = <<>> /\ cvaCalls = <<>>
    /\ radioOp = [op |-> "other", r |-> 0]

\* A radio button is created: its name (outside a group), its value and,
\* with the checked attribute, its checked input are set, then ngOnInit
\* runs; once the content of the group is initialized, _radios follows.
RadioAdded(r, v, c) ==
    /\ r \notin rPresent
    /\ LET s0 == [RadioCur EXCEPT !.name[r] = IF hasGroup THEN "" ELSE OwnName]
           s1 == valueSet(s0, r, v)
           s2 == IF c THEN checkedSet(s1, r, TRUE) ELSE s1
           s3 == RadioNgOnInit(s2, r)
           s4 == IF hasGroup /\ gIsInitialized
                 THEN RadiosChanged([s3 EXCEPT !.gRadios = InOrder(rPresent \cup {r})])
                 ELSE s3
       IN RadioCommit(s4, "add", r)
    /\ rPresent' = rPresent \cup {r}
    /\ UNCHANGED <<hasGroup, rDisabled, gIsInitialized, gDisabled, notRadio>>

\* A radio button is destroyed (ngOnDestroy) and leaves _radios
RadioRemoved(r) ==
    /\ r \in rPresent
    /\ hasGroup => gIsInitialized
    /\ LET s0 == [RadioCur EXCEPT !.listeners = SelectSeq(@, LAMBDA q : q # r),
                                  !.gRadios = SelectSeq(@, LAMBDA q : q # r)]
           s1 == IF hasGroup THEN RadiosChanged(s0) ELSE s0
       IN RadioCommit([s1 EXCEPT !.checked[r] = FALSE, !.value[r] = None, !.name[r] = ""],
                      "remove", r)
    /\ rPresent' = rPresent \ {r}
    /\ UNCHANGED <<hasGroup, rDisabled, gIsInitialized, gDisabled, notRadio>>

\* MatRadioGroup.ngAfterContentInit, with _radios holding the content
GroupAfterContentInit ==
    /\ hasGroup /\ ~gIsInitialized
    /\ gIsInitialized' = TRUE
    /\ RadioCommit([RadioCur EXCEPT !.gRadios = InOrder(rPresent)], "contentInit", 0)
    /\ UNCHANGED <<hasGroup, rPresent, rDisabled, gDisabled, notRadio>>

\* The operations below come after the first rendering.
Rendered == IF hasGroup THEN gIsInitialized ELSE TRUE

\* radio.checked = v
RadioChecked(r, v) ==
    /\ Rendered /\ r \in rPresent
    /\ RadioCommit(checkedSet(RadioCur, r, v), "checked", r)
    /\ UNCHANGED <<hasGroup, rPresent, rDisabled, gIsInitialized, gDisabled, notRadio>>

\* radio.value = v
RadioValue(r, v) ==
    /\ Rendered /\ r \in rPresent
    /\ RadioCommit(valueSet(RadioCur, r, v), "value", r)
    /\ UNCHANGED <<hasGroup, rPresent, rDisabled, gIsInitialized, gDisabled, notRadio>>

\* group.value = v
GroupValue(v) ==
    /\ hasGroup /\ Rendered
    /\ RadioCommit(groupValueSet(RadioCur, v), "group.value", 0)
    /\ UNCHANGED <<hasGroup, rPresent, rDisabled, gIsInitialized, gDisabled, notRadio>>

\* group.selected = r (0 for null)
GroupSelected(r) ==
    /\ hasGroup /\ Rendered /\ r \in rPresent \cup {0}
    /\ RadioCommit(groupSelectedSet(RadioCur, r), "group.selected", r)
    /\ UNCHANGED <<hasGroup, rPresent, rDisabled, gIsInitialized, gDisabled, notRadio>>

\* MatRadioGroup.writeValue
GroupWriteValue(v) ==
    /\ hasGroup /\ Rendered
    /\ RadioCommit(groupValueSet(RadioCur, v), "writeValue", 0)
    /\ UNCHANGED <<hasGroup, rPresent, rDisabled, gIsInitialized, gDisabled, notRadio>>

\* group.disabled = v
GroupDisabled(v) ==
    /\ hasGroup /\ Rendered /\ v # gDisabled
    /\ gDisabled' = v
    /\ RadioCommit(RadioCur, "group.disabled", 0)
    /\ UNCHANGED <<hasGroup, rPresent, rDisabled, gIsInitialized, notRadio>>

\* The user interacts with the input of a radio button
RadioInputInteraction(r) ==
    /\ Rendered /\ r \in rPresent
    /\ RadioCommit(OnInputInteraction(RadioCur, r), "interaction", r)
    /\ UNCHANGED <<hasGroup, rPresent, rDisabled, gIsInitialized, gDisabled, notRadio>>

NextRadio ==
    \/ \E r \in Radios, v \in RadioValues, c \in BOOLEAN : RadioAdded(r, v, c)
    \/ \E r \in Radios : RadioRemoved(r)
    \/ GroupAfterContentInit
    \/ \E r \in Radios, v \in BOOLEAN : RadioChecked(r, v)
    \/ \E r \in Radios, v \in RadioValues : RadioValue(r, v)
    \/ \E v \in RadioValues : GroupValue(v)
    \/ \E r \in Radios \cup {0} : GroupSelected(r)
    \/ \E v \in RadioValues : GroupWriteValue(v)
    \/ \E v \in BOOLEAN : GroupDisabled(v)
    \/ \E r \in Radios : RadioInputInteraction(r)

\* ------------------------------------------------------------------------
\* TabListPattern and TabPattern.  The tablist is horizontal.
\* ------------------------------------------------------------------------
\* The number of tabs of the tablist.
MaxTabs == 3

Tabs == 1..MaxTabs

\* TabPattern.value, per tab
TabValue == [t \in Tabs |-> <<"one", "two", "three", "four", "five">>[t]]

TabCur == [active |-> activeTab, selected |-> selectedTab, expanded |-> tabExpanded,
           ok |-> FALSE, result |-> FALSE]

\* ListFocus.isFocusable
TabIsFocusable(t) == t \notin tabDisabled \/ tabSoftDisabled

\* ListFocus.focus: refused when the list is disabled or the item cannot be
\* focused; s.ok is what it returns
TabFocus(s, t) ==
    IF tabListDisabled \/ ~TabIsFocusable(t) THEN [s EXCEPT !.ok = FALSE]
    ELSE [s EXCEPT !.active = t, !.ok = TRUE]

\* ListNavigation.goto
TabGoto(s, t) == IF t = 0 THEN [s EXCEPT !.ok = FALSE] ELSE TabFocus(s, t)

\* ListNavigation.first / last
TabFirst(s) ==
    LET F == {t \in Tabs : TabIsFocusable(t)}
    IN TabGoto(s, IF F = {} THEN 0 ELSE CHOOSE t \in F : \A u \in F : t <= u)

TabLast(s) ==
    LET F == {t \in Tabs : TabIsFocusable(t)}
    IN TabGoto(s, IF F = {} THEN 0 ELSE CHOOSE t \in F : \A u \in F : t >= u)

\* The step of ListNavigation._peek on zero-based indices
TabStep(i, delta) == IF tabWrap THEN (i + delta + MaxTabs) % MaxTabs ELSE i + delta

\* The loop of ListNavigation._peek from index i on: the first focusable
\* item met before the index is back at the start or out of bounds.  At
\* most MaxTabs indices are visited (with no active item and wrap the loop
\* of the code never meets the start again).
RECURSIVE TabPeekFrom(_, _, _, _)
TabPeekFrom(i, start, delta, left) ==
    IF left = 0 \/ i = start \/ i >= MaxTabs \/ i < 0 THEN 0
    ELSE IF TabIsFocusable(i + 1) THEN i + 1
    ELSE TabPeekFrom(TabStep(i, delta), start, delta, left - 1)

\* ListNavigation._advance: next is _advance(1), prev is _advance(-1)
TabAdvance(s, delta) ==
    TabGoto(s, TabPeekFrom(TabStep(s.active - 1, delta), s.active - 1, delta, MaxTabs))

\* ListExpansion.isExpandable (TabPattern.expandable is always true)
TabIsExpandable(t) == ~tabListDisabled /\ t \notin tabDisabled

\* ListExpansion.closeAll: close on every item, which closes the expandable ones
TabCloseAll(s) ==
    [s EXCEPT !.expanded = [t \in Tabs |-> IF TabIsExpandable(t) THEN FALSE ELSE @[t]]]

\* ListExpansion.open with multiExpandable false; s.result is what it returns
ExpansionOpen(s, t) ==
    IF ~TabIsExpandable(t) THEN [s EXCEPT !.result = FALSE]
    ELSE [TabCloseAll(s) EXCEPT !.expanded[t] = TRUE, !.result = TRUE]

\* A tablist whose open selects the tab whether or not it could be expanded
TabListOpenAlways(s, tab) ==
    LET t == IF tab = 0 THEN s.active ELSE tab
    IN IF t = 0 THEN [s EXCEPT !.result = FALSE]
       ELSE [ExpansionOpen(s, t) EXCEPT !.selected = t]

\* TabListPattern.open(tab) (0 = undefined: the active tab)
TabListOpen(s, tab) ==
    LET t == IF tab = 0 THEN s.active ELSE tab
    IN IF t = 0 THEN [s EXCEPT !.result = FALSE]
       ELSE LET s1 == ExpansionOpen(s, t)
            IN IF s1.result THEN [s1 EXCEPT !.selected = t] ELSE s1

\* TabListPattern.open(value): the first tab of that value, if any
TabListOpenValue(s, value) ==
    LET M == {t \in Tabs : TabValue[t] = value}
    IN IF M = {} THEN [s EXCEPT !.result = FALSE]
       ELSE TabListOpen(s, CHOOSE t \in M : \A u \in M : t <= u)

\* TabListPattern.followFocus
followFocus == selectionMode = "follow"

\* TabListPattern._navigate, op being the navigation already carried out
TabNavigate(s, shouldExpand) ==
    IF s.ok /\ shouldExpand THEN TabListOpen(s, 0) ELSE s

\* The handlers of TabListPattern.keydown, by the names TabKeyTable gives them
TabHandler(s, h) ==
    CASE h = "prev" -> TabNavigate(TabAdvance(s, -1), followFocus)
      [] h = "next" -> TabNavigate(TabAdvance(s, 1), followFocus)
      [] h = "first" -> TabNavigate(TabFirst(s), followFocus)
      [] h = "last" -> TabNavigate(TabLast(s), followFocus)
      [] h = "open" -> TabListOpen(s, 0)

RECURSIVE TabRun(_, _, _)
TabRun(s, hs, k) == IF k > Len(hs) THEN s ELSE TabRun(TabHandler(s, hs[k]), hs, k + 1)

\* TabListPattern.onKeydown
TabOnKeydown(s, key) ==
    IF tabListDisabled THEN s
    ELSE TabRun(s, Handle(TabKeyTable("horizontal", tabDir), key), 1)

\* TabListPattern.onPointerdown on tab t (0: the target is not in a tab)
TabOnPointerdown(s, t) ==
    IF tabListDisabled THEN s ELSE TabNavigate(TabGoto(s, t), TRUE)

\* A tablist that always makes its first focusable tab the active one
TabSetDefaultStateFirst(s) ==
    LET F == {t \in Tabs : TabIsFocusable(t)}
    IN IF F = {} THEN s ELSE [s EXCEPT !.active = CHOOSE t \in F : \A u \in F : t <= u]

\* The loop of TabListPattern.setDefaultState from the k-th tab on, with
\* firstItem as found so far (0 = undefined)
RECURSIVE SetDefaultStateLoop(_, _, _)
SetDefaultStateLoop(s, k, firstItem) ==
    IF k > MaxTabs
    THEN IF firstItem # 0 THEN [s EXCEPT !.active = firstItem] ELSE s
    ELSE IF ~TabIsFocusable(k) THEN SetDefaultStateLoop(s, k + 1, firstItem)
    ELSE IF s.selected = k THEN [s EXCEPT !.active = k]
    ELSE SetDefaultStateLoop(s, k + 1, IF firstItem = 0 THEN k ELSE firstItem)

\* TabListPattern.setDefaultState
TabSetDefaultState(s) == SetDefaultStateLoop(s, 1, 0)

TabCommit(s, op, arg) ==
    /\ activeTab' = s.active /\ selectedTab' = s.selected /\ tabExpanded' = s.expanded
    /\ tabOp' = [op |-> op, arg |-> arg, ok |-> s.ok, result |-> s.result]
    /\ UNCHANGED <<tabDisabled, tabSoftDisabled, tabListDisabled, tabWrap, tabDir,
                   selectionMode, notTabs>>

TabsStart ==
    /\ activeTab = 0 /\ selectedTab = 0
    /\ tabExpanded = [t \in Tabs |-> FALSE]
    /\ tabOp = [op |-> "none", arg |-> None, ok |-> FALSE, result |-> FALSE]

TabsInit ==
    /\ tabDisabled \in SUBSET Tabs
    /\ tabSoftDisabled \in BOOLEAN
    /\ tabListDisabled \in BOOLEAN
    /\ tabWrap \in BOOLEAN
    /\ tabDir \in {"ltr", "rtl"}
    /\ selectionMode \in {"follow", "explicit"}
    /\ TabsStart

TabsIdle ==
    /\ tabDisabled = {}
    /\ tabSoftDisabled = FALSE
    /\ tabListDisabled = FALSE
    /\ tabWrap = FALSE
    /\ tabDir = "ltr"
    /\ selectionMode = "follow"
    /\ TabsStart

\* The keys pressed on the tablist; "x" is a key it has no handler for
TabKeys == {"ArrowLeft", "ArrowRight", "Home", "End", " ", "Enter", "x"}

TabsSetDefaultState == TabCommit(TabSetDefaultState(TabCur), "setDefaultState", None)

TabsKeydown(key) == TabCommit(TabOnKeydown(TabCur, key), "keydown", key)

TabsPointerdown(t) == TabCommit(TabOnPointerdown(TabCur, t), "pointerdown", t)

\* tablist.open(value), with a value no tab has among the values
TabsOpenValue(value) == TabCommit(TabListOpenValue(TabCur, value), "open(value)", value)

\* tablist.open(tab) and tablist.open(); TabPattern.open is tablist.open(this)
TabsOpen(t) == TabCommit(TabListOpen(TabCur, t), "open", t)

NextTabs ==
    \/ TabsSetDefaultState
    \/ \E key \in TabKeys : TabsKeydown(key)
    \/ \E t \in Tabs \cup {0} : TabsPointerdown(t)
    \/ \E value \in {TabValue[t] : t \in Tabs} \cup {"unknown"} : TabsOpenValue(value)
    \/ \E t \in Tabs \cup {0} : TabsOpen(t)

\* ------------------------------------------------------------------------
\* TreeItemPattern: expansion and visibility.
\* ------------------------------------------------------------------------
\* The number of items of the tree.
MaxTreeItems == 4

TreeItems == 1..MaxTreeItems

\* TreePattern.expanded and TreePattern.visible: the tree itself is always
\* expanded and visible
TreeRootExpanded == TRUE
TreeRootVisible == TRUE

\* An item that is visible as soon as its parent is expanded
TreeItemVisibleUnderParent(i) ==
    IF treeParent[i] = 0 THEN TreeRootExpanded ELSE treeExpanded[treeParent[i]]

\* TreeItemPattern.visible: parent().expanded() && parent().visible()
RECURSIVE TreeItemVisible(_)
TreeItemVisible(i) ==
    IF treeParent[i] = 0 THEN TreeRootExpanded /\ TreeRootVisible
    ELSE treeExpanded[treeParent[i]] /\ TreeItemVisible(treeParent[i])

\* Every tree with these items in document order: the parent of an item
\* comes before it
TreeInit ==
    /\ treeParent \in {p \in [TreeItems -> 0..MaxTreeItems] : \A i \in TreeItems : p[i] < i}
    /\ treeExpanded \in {[i \in TreeItems |-> FALSE], [i \in TreeItems |-> TRUE]}
    /\ treeOp = [item |-> 0, value |-> FALSE]

TreeIdle ==
    /\ treeParent = [i \in TreeItems |-> 0]
    /\ treeExpanded = [i \in TreeItems |-> FALSE]
    /\ treeOp = [item |-> 0, value |-> FALSE]

\* item.expanded.set(value): the expanded signal of an item is the writable
\* input the expansion behaviour writes
TreeItemSetExpanded(i, value) ==
    /\ treeExpanded' = [treeExpanded EXCEPT ![i] = value]
    /\ treeOp' = [item |-> i, value |-> value]
    /\ UNCHANGED <<treeParent, notTree>>

NextTree == \E i \in TreeItems, value \in BOOLEAN : TreeItemSetExpanded(i, value)

\* ------------------------------------------------------------------------
\* MatSelectionList, its SelectionListSelectionService and its options.
\* ------------------------------------------------------------------------
\* The number of options of the list.
MaxOptions == 3

ListOptions == 1..MaxOptions

\* MatListOption.value, per option
OptionValue == [o \in ListOptions |-> <<"a", "b", "c", "d", "e">>[o]]

\* The message of the error of the setter of multiple (its backquotes left out)
CannotChangeMultiple == "Cannot change multiple mode of mat-selection-list after initialization."

ListCur == [multiple |-> slMultiple, selected |-> slSelected, watched |-> slWatched,
            value |-> slValue, flags |-> optSelected, thrown |-> None]

\* new SelectionModel(multiple, initiallySelectedValues): a model that is
\* not multiple keeps the first of the initial values only
SelectionModelNew(multiple, initially) ==
    IF multiple \/ initially = <<>> THEN initially ELSE <<initially[1]>>

\* SelectionListSelectionService.setMultiple
SetMultiple(s, value) ==
    [s EXCEPT !.multiple = value,
              !.selected = SelectionModelNew(value, s.selected),
              !.watched = FALSE]

\* A setter of multiple that never throws
ListMultipleSetUnchecked(s, newValue) ==
    IF newValue # s.multiple THEN SetMultiple(s, newValue) ELSE s

\* set MatSelectionList.multiple
ListMultipleSet(s, newValue) ==
    IF newValue # s.multiple
    THEN IF InDevMode(slNgDevMode) /\ slInitialized
         THEN [s EXCEPT !.thrown = CannotChangeMultiple]
         ELSE SetMultiple(s, newValue)
    ELSE s

\* MatSelectionList._reportValueChange
ReportValueChange(s) ==
    [s EXCEPT !.value = LET on == SelectSeq([o \in ListOptions |-> o], LAMBDA o : s.flags[o])
                        IN [n \in 1..Len(on) |-> OptionValue[on[n]]]]

RECURSIVE OptionSetSelected(_, _, _)
RECURSIVE OptionSelectedSet(_, _, _)
RECURSIVE SelectionChanged(_, _, _, _)

\* The subscriber of selectedOptions.changed (watchForSelectionChange):
\* item.selected = true for the added options, then item.selected = false
\* for the removed ones, from the k-th on
SelectionChanged(s, added, removed, k) ==
    IF ~s.watched THEN s
    ELSE IF k <= Len(added)
         THEN SelectionChanged(OptionSelectedSet(s, added[k], TRUE), added, removed, k + 1)
    ELSE IF k <= Len(added) + Len(removed)
         THEN SelectionChanged(OptionSelectedSet(s, removed[k - Len(added)], FALSE),
                               added, removed, k + 1)
    ELSE s

\* SelectionModel.select: a model that is not multiple drops what it held
ModelSelect(s, o) ==
    IF \E n \in 1..Len(s.selected) : s.selected[n] = o THEN s
    ELSE LET removed == IF s.multiple THEN <<>> ELSE s.selected
         IN SelectionChanged([s EXCEPT !.selected = IF s.multiple THEN Append(@, o) ELSE <<o>>],
                             <<o>>, removed, 1)

\* SelectionModel.deselect
ModelDeselect(s, o) ==
    IF \E n \in 1..Len(s.selected) : s.selected[n] = o
    THEN SelectionChanged([s EXCEPT !.selected = SelectSeq(@, LAMBDA q : q # o)],
                          <<>>, <<o>>, 1)
    ELSE s

\* MatListOption._setSelected
OptionSetSelected(s, o, selected) ==
    IF selected = s.flags[o] THEN s
    ELSE LET s1 == [s EXCEPT !.flags[o] = selected]
         IN IF selected THEN ModelSelect(s1, o) ELSE ModelDeselect(s1, o)

\* set MatListOption.selected
OptionSelectedSet(s, o, isSelected) ==
    IF isSelected # s.flags[o]
    THEN LET s1 == OptionSetSelected(s, o, isSelected)
         IN IF isSelected \/ s1.multiple THEN ReportValueChange(s1) ELSE s1
    ELSE s

\* options.forEach(option => option._setSelected(false)), from option o on
RECURSIVE DeselectFrom(_, _)
DeselectFrom(s, o) ==
    IF o > MaxOptions THEN s ELSE DeselectFrom(OptionSetSelected(s, o, FALSE), o + 1)

\* values.forEach of setOptionsFromValues, from the k-th value on: the first
\* option of that value that is not selected yet is selected
RECURSIVE SelectValuesFrom(_, _, _)
SelectValuesFrom(s, values, k) ==
    IF k > Len(values) THEN s
    ELSE LET M == {o \in ListOptions : ~s.flags[o] /\ OptionValue[o] = values[k]}
         IN SelectValuesFrom(IF M = {} THEN s
                             ELSE OptionSetSelected(s, CHOOSE o \in M : \A q \in M : o <= q, TRUE),
                             values, k + 1)

\* SelectionListSelectionService.setOptionsFromValues
SetOptionsFromValues(s, values) == SelectValuesFrom(DeselectFrom(s, 1), values, 1)

\* MatSelectionList.ngAfterViewInit
ListNgAfterViewInit(s) ==
    LET s1 == IF s.value # None THEN SetOptionsFromValues(s, s.value) ELSE s
    IN [s1 EXCEPT !.watched = TRUE]

\* MatSelectionList.writeValue
ListWriteValue(s, values) ==
    SetOptionsFromValues([s EXCEPT !.value = values], IF values = None THEN <<>> ELSE values)

\* MatListOption._toggleOnInteraction
OptionToggleOnInteraction(s, o) ==
    IF s.multiple THEN OptionSelectedSet(s, o, ~s.flags[o])
    ELSE IF ~s.flags[o] THEN OptionSelectedSet(s, o, TRUE) ELSE s

ListCommit(s, op, arg) ==
    /\ slMultiple' = s.multiple /\ slSelected' = s.selected /\ slWatched' = s.watched
    /\ slValue' = s.value /\ optSelected' = s.flags /\ slThrown' = s.thrown
    /\ slOp' = [op |-> op, arg |-> arg]

ListStart ==
    /\ slMultiple = TRUE
    /\ slSelected = <<>>
    /\ slWatched = FALSE
    /\ slInitialized = FALSE
    /\ slValue = None
    /\ optSelected = [o \in ListOptions |-> FALSE]
    /\ slThrown = None
    /\ slOp = [op |-> "none", arg |-> None]

SelectionListInit == slNgDevMode \in {"undefined", "true", "false"} /\ ListStart

SelectionListIdle == slNgDevMode = "undefined" /\ ListStart

\* The values the forms API writes
WrittenValues == {None, <<>>, <<"a">>, <<"b", "a">>, <<"b", "c">>}

\* list.multiple = value
SelectionListMultiple(value) ==
    /\ ListCommit(ListMultipleSet(ListCur, value), "multiple", value)
    /\ UNCHANGED <<slInitialized, slNgDevMode, notList>>

\* ngAfterViewInit
SelectionListAfterViewInit ==
    /\ ~slInitialized
    /\ slInitialized' = TRUE
    /\ ListCommit(ListNgAfterViewInit(ListCur), "ngAfterViewInit", None)
    /\ UNCHANGED <<slNgDevMode, notList>>

\* writeValue(values)
SelectionListWriteValue(values) ==
    /\ ListCommit(ListWriteValue(ListCur, values), "writeValue", values)
    /\ UNCHANGED <<slInitialized, slNgDevMode, notList>>

\* The user toggles an option of the rendered list
OptionInteraction(o) ==
    /\ slInitialized
    /\ ListCommit(OptionToggleOnInteraction(ListCur, o), "toggle", o)
    /\ UNCHANGED <<slInitialized, slNgDevMode, notList>>

NextList ==
    \/ \E value \in BOOLEAN : SelectionListMultiple(value)
    \/ SelectionListAfterViewInit
    \/ \E values \in WrittenValues : SelectionListWriteValue(values)
    \/ \E o \in ListOptions : OptionInteraction(o)

\* ------------------------------------------------------------------------
\* MatDrawer: open, close, toggle and their promises; Escape; the backdrop
\* of MatDrawerContainer.
\* ------------------------------------------------------------------------
\* The number of animations of one drawer that may be under way.
MaxToggles == 2

\* 1 = MatDrawerContainer._start, 2 = MatDrawerContainer._end
SideDrawers == {1, 2}

\* MatDrawerToggleResult
ToggleResult(open) == IF open THEN "open" ELSE "close"

SideCur == [opened |-> dwOpened, ending |-> dwEnding, emissions |-> dwEmissions,
            pending |-> dwPending, resolved |-> <<>>, emitted |-> FALSE]

\* MatDrawer._setOpen: the promise of a call for the current state is
\* resolved at once, another one waits for the next openedChange
SetOpen(s, d, isOpen) ==
    IF isOpen = s.opened[d]
    THEN [s EXCEPT !.resolved = Append(@, [d |-> d, requested |-> isOpen,
                                           result |-> ToggleResult(isOpen)])]
    ELSE [s EXCEPT !.opened[d] = isOpen,
                   !.ending[d] = @ + 1,
                   !.pending[d] = Append(@, isOpen)]

\* MatDrawer.toggle(isOpen)
MatDrawerToggle(s, d, isOpen) == SetOpen(s, d, isOpen)

\* MatDrawer.open
MatDrawerOpen(s, d) == MatDrawerToggle(s, d, TRUE)

\* MatDrawer.close
MatDrawerClose(s, d) == MatDrawerToggle(s, d, FALSE)

\* MatDrawer._closeViaBackdropClick
CloseViaBackdropClick(s, d) == SetOpen(s, d, FALSE)

\* The keydown listener of _setupEventListeners
DrawerKeydown(s, d, key, hasModifierKey) ==
    IF key = "Escape" /\ ~dwDisableClose[d] /\ ~hasModifierKey
    THEN MatDrawerClose(s, d)
    ELSE s

\* _animationEnd.next(): openedChange.emit(this.opened), delivered later
AnimationEnd(s, d) ==
    [s EXCEPT !.ending[d] = @ - 1,
              !.emissions[d] = Append(@, s.opened[d])]

\* The delivery of an emission of openedChange: take(1) resolves every
\* waiting promise with it
OpenedChangeNext(s, d) ==
    LET open == Head(s.emissions[d])
    IN [s EXCEPT !.emissions[d] = Tail(@),
                 !.pending[d] = <<>>,
                 !.resolved = [k \in 1..Len(s.pending[d]) |->
                                  [d |-> d, requested |-> s.pending[d][k],
                                   result |-> ToggleResult(open)]]]

\* A backdrop for the drawers in 'over' and 'push' mode, whatever is set
DrawerHasBackdropByMode(d) == d \in dwPresent /\ dwMode[d] # "side"

\* MatDrawerContainer._drawerHasBackdrop
DrawerHasBackdrop(d) ==
    IF backdropOverride = "null"
    THEN d \in dwPresent /\ dwMode[d] # "side"
    ELSE backdropOverride = "true"

\* MatDrawerContainer._closeModalDrawersViaBackdrop, from drawer d on
RECURSIVE CloseModalDrawersFrom(_, _)
CloseModalDrawersFrom(s, d) ==
    IF d > 2 THEN s
    ELSE CloseModalDrawersFrom(
             IF d \in dwPresent /\ ~dwDisableClose[d] /\ DrawerHasBackdrop(d)
             THEN CloseViaBackdropClick(s, d) ELSE s,
             d + 1)

\* MatDrawerContainer._onBackdropClicked
OnBackdropClicked(s) == CloseModalDrawersFrom([s EXCEPT !.emitted = TRUE], 1)

SideCommit(s, op, d) ==
    /\ dwOpened' = s.opened /\ dwEnding' = s.ending /\ dwEmissions' = s.emissions
    /\ dwPending' = s.pending /\ dwResolved' = s.resolved
    /\ dwOp' = [op |-> op, d |-> d, emitted |-> s.emitted]

\* No more than MaxToggles animations of drawer d are under way
CanToggle(d) ==
    /\ dwEnding[d] + Len(dwEmissions[d]) < MaxToggles
    /\ Len(dwPending[d]) < MaxToggles

SideStart ==
    /\ dwOpened = [d \in SideDrawers |-> FALSE]
    /\ dwMode = [d \in SideDrawers |-> "over"]
    /\ dwDisableClose = [d \in SideDrawers |-> FALSE]
    /\ backdropOverride = "null"
    /\ dwEnding = [d \in SideDrawers |-> 0]
    /\ dwEmissions = [d \in SideDrawers |-> <<>>]
    /\ dwPending = [d \in SideDrawers |-> <<>>]
    /\ dwResolved = <<>>
    /\ dwOp = [op |-> "none", d |-> 0, emitted |-> FALSE]

SidenavInit ==
    /\ dwPresent \in {{1}, {1, 2}}
    /\ transitionsEnabled \in BOOLEAN
    /\ SideStart

SidenavIdle == dwPresent = {1} /\ transitionsEnabled = FALSE /\ SideStart

sideFixed == <<dwPresent, dwMode, dwDisableClose, backdropOverride, transitionsEnabled, notSidenav>>

\* drawer.open()
SidenavOpen(d) ==
    /\ d \in dwPresent /\ CanToggle(d)
    /\ SideCommit(MatDrawerOpen(SideCur, d), "open", d)
    /\ UNCHANGED sideFixed

\* drawer.close()
SidenavClose(d) ==
    /\ d \in dwPresent /\ CanToggle(d)
    /\ SideCommit(MatDrawerClose(SideCur, d), "close", d)
    /\ UNCHANGED sideFixed

\* drawer.toggle(): isOpen defaults to !this.opened
SidenavToggle(d) ==
    /\ d \in dwPresent /\ CanToggle(d)
    /\ SideCommit(MatDrawerToggle(SideCur, d, ~dwOpened[d]), "toggle", d)
    /\ UNCHANGED sideFixed

\* A keydown event on the element of a drawer
SidenavKeydown(d, key, hasModifierKey) ==
    /\ d \in dwPresent /\ CanToggle(d)
    /\ SideCommit(DrawerKeydown(SideCur, d, key, hasModifierKey),
                  IF key = "Escape" /\ ~hasModifierKey THEN "escape" ELSE "key",
                  IF key = "Escape" /\ ~hasModifierKey THEN d ELSE 0)
    /\ UNCHANGED sideFixed

\* A click on the backdrop of the container
SidenavBackdropClick ==
    /\ \A d \in dwPresent : CanToggle(d)
    /\ SideCommit(OnBackdropClicked(SideCur), "backdrop", 0)
    /\ UNCHANGED sideFixed

\* The timeout of _setOpen fires (transitions are not enabled)
SidenavTimeout(d) ==
    /\ ~transitionsEnabled /\ dwEnding[d] > 0
    /\ SideCommit(AnimationEnd(SideCur, d), "other", 0)
    /\ UNCHANGED sideFixed

\* A transitionend or transitioncancel event on the element of a drawer
SidenavTransitionEvent(d) ==
    /\ transitionsEnabled /\ dwEnding[d] > 0
    /\ SideCommit(AnimationEnd(SideCur, d), "other", 0)
    /\ UNCHANGED sideFixed

\* The asynchronous EventEmitter openedChange delivers an emission
SidenavOpenedChange(d) ==
    /\ dwEmissions[d] # <<>>
    /\ SideCommit(OpenedChangeNext(SideCur, d), "other", 0)
    /\ UNCHANGED sideFixed

\* drawer.disableClose = value
SidenavDisableClose(d, value) ==
    /\ d \in dwPresent
    /\ dwDisableClose' = [dwDisableClose EXCEPT ![d] = value]
    /\ dwResolved' = <<>>
    /\ dwOp' = [op |-> "other", d |-> 0, emitted |-> FALSE]
    /\ UNCHANGED <<dwPresent, dwOpened, dwMode, backdropOverride, transitionsEnabled,
                   dwEnding, dwEmissions, dwPending, notSidenav>>

\* drawer.mode = value
SidenavMode(d, value) ==
    /\ d \in dwPresent
    /\ dwMode' = [dwMode EXCEPT ![d] = value]
    /\ dwResolved' = <<>>
    /\ dwOp' = [op |-> "other", d |-> 0, emitted |-> FALSE]
    /\ UNCHANGED <<dwPresent, dwOpened, dwDisableClose, backdropOverride, transitionsEnabled,
                   dwEnding, dwEmissions, dwPending, notSidenav>>

\* container.hasBackdrop = value
SidenavHasBackdrop(value) ==
    /\ backdropOverride' = value
    /\ dwResolved' = <<>>
    /\ dwOp' = [op |-> "other", d |-> 0, emitted |-> FALSE]
    /\ UNCHANGED <<dwPresent, dwOpened, dwMode, dwDisableClose, transitionsEnabled,
                   dwEnding, dwEmissions, dwPending, notSidenav>>

NextSidenav ==
    \/ \E d \in SideDrawers : SidenavOpen(d)
    \/ \E d \in SideDrawers : SidenavClose(d)
    \/ \E d \in SideDrawers : SidenavToggle(d)
    \/ \E d \in SideDrawers, key \in {"Escape", "Enter"}, m \in BOOLEAN : SidenavKeydown(d, key, m)
    \/ SidenavBackdropClick
    \/ \E d \in SideDrawers : SidenavTimeout(d)
    \/ \E d \in SideDrawers : SidenavTransitionEvent(d)
    \/ \E d \in SideDrawers : SidenavOpenedChange(d)
    \/ \E d \in SideDrawers, value \in BOOLEAN : SidenavDisableClose(d, value)
    \/ \E d \in SideDrawers, value \in {"over", "side"} : SidenavMode(d, value)
    \/ \E value \in {"null", "true", "false"} : SidenavHasBackdrop(value)

\* ------------------------------------------------------------------------
\* DocFetcher and DocViewer.
\* ------------------------------------------------------------------------
\* The number of calls of fetchDocument.
MaxFetches == 3

DocUrls == {"u1", "u2"}

\* The texts the server answers with
DocTexts == {"t1", "t2"}

DocCur == [cache |-> docCache, streams |-> docStreams, calls |-> docCalls,
           requests |-> docRequests, content |-> viewerContent]

\* DocFetcher.fetchDocument: the cached stream, or a new stream behind a
\* tap that caches it when a value passes; the observable returned is the
\* last of calls
FetchDocument(s, url, owner) ==
    IF s.cache[url] # 0
    THEN [s EXCEPT !.calls = Append(@, [stream |-> s.cache[url], tap |-> FALSE, owner |-> owner,
                                        state |-> "returned", got |-> None])]
    ELSE [s EXCEPT !.streams = Append(@, [url |-> url, state |-> "cold", text |-> None]),
                   !.calls = Append(@, [stream |-> Len(s.streams) + 1, tap |-> TRUE,
                                        owner |-> owner, state |-> "returned", got |-> None])]

\* DocViewer._updateDocument
UpdateDocument(s, url, rawDocument) == [s EXCEPT !.content = [source |-> url, text |-> rawDocument]]

\* DocViewer._showError
ShowError(s, url) == [s EXCEPT !.content = [source |-> "error", text |-> url]]

\* A value reaches the subscriber of call c: the tap caches the stream, then
\* the subscriber's callback runs
Receive(s, c, text) ==
    LET call == s.calls[c]
        url == s.streams[call.stream].url
    IN IF call.state # "subscribed" \/ call.got # None THEN s
       ELSE LET s1 == [s EXCEPT !.cache[url] = IF call.tap THEN call.stream ELSE @,
                                !.calls[c].got = text]
            IN IF call.owner = "viewer" THEN UpdateDocument(s1, url, text) ELSE s1

\* An error reaches the subscriber of call c
ReceiveError(s, c) ==
    LET call == s.calls[c]
    IN IF call.state # "subscribed" \/ call.got # None THEN s
       ELSE LET s1 == [s EXCEPT !.calls[c].got = "error"]
            IN IF call.owner = "viewer" THEN ShowError(s1, s.streams[call.stream].url) ELSE s1

\* subscribe() on the observable of call c: shareReplay(1) subscribes to
\* http.get for its first subscriber (and again after an error), and
\* replays the response to a late one
SubscribeCall(s, c) ==
    LET k == s.calls[c].stream
        st == s.streams[k]
        s1 == [s EXCEPT !.calls[c].state = "subscribed"]
    IN IF st.state \in {"cold", "failed"}
       THEN [s1 EXCEPT !.streams[k].state = "pending", !.requests[st.url] = @ + 1]
       ELSE IF st.state = "done" THEN Receive(s1, c, st.text)
       ELSE s1

\* Subscription.unsubscribe() of call c
Unsubscribe(s, c) ==
    IF c = 0 THEN s ELSE [s EXCEPT !.calls[c].state = "unsubscribed"]

\* The subscribers of stream k are served, from call c on
RECURSIVE ReceiveFrom(_, _, _, _)
ReceiveFrom(s, k, text, c) ==
    IF c > Len(s.calls) THEN s
    ELSE ReceiveFrom(IF s.calls[c].stream # k THEN s
                     ELSE IF text = "error" THEN ReceiveError(s, c) ELSE Receive(s, c, text),
                     k, text, c + 1)

\* The response of the request of stream k
Respond(s, k, text) ==
    ReceiveFrom([s EXCEPT !.streams[k].state = "done", !.streams[k].text = text], k, text, 1)

\* The request of stream k fails
RespondError(s, k) ==
    ReceiveFrom([s EXCEPT !.streams[k].state = "failed"], k, "error", 1)

\* DocViewer._fetchDocument
ViewerFetchDocument(s, url) ==
    LET s1 == FetchDocument(Unsubscribe(s, viewerSub), url, "viewer")
    IN SubscribeCall(s1, Len(s1.calls))

\* set DocViewer.document
ViewerDocumentSet(s, document) ==
    IF document \in DocUrls THEN ViewerFetchDocument(s, document)
    ELSE IF document = "component"
         THEN [s EXCEPT !.content = [source |-> "component", text |-> None]]
         ELSE s

DocCommit(s, op, url) ==
    /\ docCache' = s.cache /\ docStreams' = s.streams /\ docCalls' = s.calls
    /\ docRequests' = s.requests /\ viewerContent' = s.content
    /\ docOp' = [op |-> op, url |-> url]

DocsInit ==
    /\ docCache = [u \in DocUrls |-> 0]
    /\ docStreams = <<>>
    /\ docCalls = <<>>
    /\ docRequests = [u \in DocUrls |-> 0]
    /\ viewerSub = 0
    /\ viewerContent = [source |-> "loading", text |-> None]
    /\ viewerDocument = None
    /\ viewerDestroyed = FALSE
    /\ docOp = [op |-> "none", url |-> None]

DocsIdle == DocsInit

\* A caller other than the viewer calls fetchDocument(url)
DocFetch(url) ==
    /\ Len(docCalls) < MaxFetches
    /\ DocCommit(FetchDocument(DocCur, url, "caller"), "fetch", url)
    /\ UNCHANGED <<viewerSub, viewerDocument, viewerDestroyed, notDocs>>

\* That caller subscribes to the observable it was returned
DocSubscribe(c) ==
    /\ c \in 1..Len(docCalls)
    /\ docCalls[c].owner = "caller" /\ docCalls[c].state = "returned"
    /\ DocCommit(SubscribeCall(DocCur, c), "subscribe", docStreams[docCalls[c].stream].url)
    /\ UNCHANGED <<viewerSub, viewerDocument, viewerDestroyed, notDocs>>

\* The server answers the request of stream k
HttpResponse(k, text) ==
    /\ k \in 1..Len(docStreams) /\ docStreams[k].state = "pending"
    /\ DocCommit(Respond(DocCur, k, text), "response", docStreams[k].url)
    /\ UNCHANGED <<viewerSub, viewerDocument, viewerDestroyed, notDocs>>

\* The request of stream k fails
HttpError(k) ==
    /\ k \in 1..Len(docStreams) /\ docStreams[k].state = "pending"
    /\ DocCommit(RespondError(DocCur, k), "response", docStreams[k].url)
    /\ UNCHANGED <<viewerSub, viewerDocument, viewerDestroyed, notDocs>>

\* viewer.document = document
ViewerDocument(document) ==
    /\ ~viewerDestroyed
    /\ document \in DocUrls => Len(docCalls) < MaxFetches
    /\ LET s == ViewerDocumentSet(DocCur, document)
       IN /\ DocCommit(s, "document", document)
          /\ viewerSub' = IF document \in DocUrls THEN Len(s.calls) ELSE viewerSub
    /\ viewerDocument' = IF document = "undefined" THEN viewerDocument ELSE document
    /\ UNCHANGED <<viewerDestroyed, notDocs>>

\* DocViewer.ngOnDestroy
ViewerNgOnDestroy ==
    /\ ~viewerDestroyed
    /\ viewerDestroyed' = TRUE
    /\ DocCommit(Unsubscribe(DocCur, viewerSub), "destroy", None)
    /\ UNCHANGED <<viewerSub, viewerDocument, notDocs>>

NextDocs ==
    \/ \E url \in DocUrls : DocFetch(url)
    \/ \E c \in 1..MaxFetches : DocSubscribe(c)
    \/ \E k \in 1..MaxFetches, text \in DocTexts : HttpResponse(k, text)
    \/ \E k \in 1..MaxFetches : HttpError(k)
    \/ \E document \in DocUrls \cup {"component", "undefined"} : ViewerDocument(document)
    \/ ViewerNgOnDestroy

\* Keyboard and click events on every pattern, calls of close, and the
\* pointer and focus events of the trigger and the menubar.
NextMenu ==
    \/ \E m \in Menus : MenuSetDefaultState(m)
    \/ \E m \in Menus : MenuOnKeydown(m, Keys)
    \/ \E m \in Menus, i \in Items \cup {None} : MenuClick(m, i)
    \/ \E i \in Items, b \in BOOLEAN : ItemCloseCall(i, b)
    \/ \E key \in Keys : TriggerOnKeydown(key)
    \/ TriggerOnClick
    \/ \E b \in BOOLEAN : TriggerOnFocusOut(b)
    \/ BarSetDefaultState
    \/ BarOnKeydown
    \/ \E i \in Items \cup {None} : BarClick(i)
    \/ \E i \in Items \cup {None} : BarMouseOver(i)
    \/ BarFocusIn
    \/ \E b \in BOOLEAN : BarFocusOut(b)

InitMenu == MenuInit /\ KeysIdle /\ DrawerIdle /\ LoaderIdle /\ PlayerIdle /\ RadioIdle /\ TabsIdle /\ TreeIdle /\ SelectionListIdle /\ SidenavIdle /\ DocsIdle

SpecMenu == InitMenu /\ [][NextMenu]_vars

\* Hover: the pointer and focus events of the menus with their timers, and
\* the events that open and close the menus under the pointer.
NextHover ==
    \/ \E m \in Menus : MenuSetDefaultState(m)
    \/ \E m \in Menus, i \in Items \cup {None} : MenuMouseOver(m, i)
    \/ \E m \in Menus, b \in BOOLEAN : MenuMouseOut(m, b)
    \/ TimerFire
    \/ \E m \in Menus : MenuFocusIn(m)
    \/ \E m \in Menus, rt \in {"null", "sibling", "parent", "self", "outside"} : MenuFocusOut(m, rt)
    \/ \E m \in Menus : MenuOnKeydown(m, {"Enter", "Escape"})
    \/ \E i \in Items, b \in BOOLEAN : ItemCloseCall(i, b)
    \/ TriggerOnKeydown("Escape")
    \/ TriggerOnClick
    \/ BarSetDefaultState
    \/ \E i \in Items \cup {None} : BarClick(i)

HoverInit == InitWith("small", {f \in Fixtures : f.disabled = {}},
                      {"mouseover", "mouseout", "item.close", "trigger.Escape"})

InitHover == HoverInit /\ KeysIdle /\ DrawerIdle /\ LoaderIdle /\ PlayerIdle /\ RadioIdle /\ TabsIdle /\ TreeIdle /\ SelectionListIdle /\ SidenavIdle /\ DocsIdle

SpecHover == InitHover /\ [][NextHover]_vars

\* Events only: the keyboard, click, pointer and focus events of every
\* pattern, without calls of the patterns' methods.
NextEvents ==
    \/ \E m \in Menus : MenuSetDefaultState(m)
    \/ \E m \in Menus : MenuOnKeydown(m, Keys)
    \/ \E m \in Menus, i \in Items \cup {None} : MenuClick(m, i)
    \/ \E key \in Keys : TriggerOnKeydown(key)
    \/ TriggerOnClick
    \/ \E b \in BOOLEAN : TriggerOnFocusOut(b)
    \/ BarSetDefaultState
    \/ BarOnKeydown
    \/ \E i \in Items \cup {None} : BarClick(i)
    \/ \E i \in Items \cup {None} : BarMouseOver(i)
    \/ BarFocusIn
    \/ \E b \in BOOLEAN : BarFocusOut(b)

InitEvents == MenuInit /\ KeysIdle /\ DrawerIdle /\ LoaderIdle /\ PlayerIdle /\ RadioIdle /\ TabsIdle /\ TreeIdle /\ SelectionListIdle /\ SidenavIdle /\ DocsIdle

SpecEvents == InitEvents /\ [][NextEvents]_vars

\* The direction keys, with the other parts of the library at rest.
InitKeys == KeysInit /\ MenuIdle /\ DrawerIdle /\ LoaderIdle /\ PlayerIdle /\ RadioIdle /\ TabsIdle /\ TreeIdle /\ SelectionListIdle /\ SidenavIdle /\ DocsIdle

SpecKeys == InitKeys /\ [][NextKeys]_vars

\* Drawer validation, with the other parts of the library at rest.
InitDrawers == DrawerInit /\ MenuIdle /\ KeysIdle /\ LoaderIdle /\ PlayerIdle /\ RadioIdle /\ TabsIdle /\ TreeIdle /\ SelectionListIdle /\ SidenavIdle /\ DocsIdle

SpecDrawers == InitDrawers /\ [][NextDrawers]_vars

\* The YouTube API loader, with the other parts of the library at rest.
InitLoader == LoaderInit /\ MenuIdle /\ KeysIdle /\ DrawerIdle /\ PlayerIdle /\ RadioIdle /\ TabsIdle /\ TreeIdle /\ SelectionListIdle /\ SidenavIdle /\ DocsIdle

SpecLoader == InitLoader /\ [][NextLoader]_vars

\* A YouTube player component and the API loader, the rest at rest.
InitPlayer == PlayerInit /\ LoaderInit /\ MenuIdle /\ KeysIdle /\ DrawerIdle /\ RadioIdle /\ TabsIdle /\ TreeIdle /\ SelectionListIdle /\ SidenavIdle /\ DocsIdle

SpecPlayer == InitPlayer /\ [][NextPlayer]_vars

\* A radio group and its radio buttons, the rest at rest.
InitRadio == RadioInit /\ MenuIdle /\ KeysIdle /\ DrawerIdle /\ LoaderIdle /\ PlayerIdle /\ TabsIdle /\ TreeIdle /\ SelectionListIdle /\ SidenavIdle /\ DocsIdle

SpecRadio == InitRadio /\ [][NextRadio]_vars

\* A tablist, the rest at rest.
InitTabs == TabsInit /\ MenuIdle /\ KeysIdle /\ DrawerIdle /\ LoaderIdle /\ PlayerIdle /\ RadioIdle /\ TreeIdle /\ SelectionListIdle /\ SidenavIdle /\ DocsIdle

SpecTabs == InitTabs /\ [][NextTabs]_vars

\* A tree and its items, the rest at rest.
InitTree == TreeInit /\ MenuIdle /\ KeysIdle /\ DrawerIdle /\ LoaderIdle /\ PlayerIdle /\ RadioIdle /\ TabsIdle /\ SelectionListIdle /\ SidenavIdle /\ DocsIdle

SpecTree == InitTree /\ [][NextTree]_vars

\* A selection list, the rest at rest.
InitList == SelectionListInit /\ MenuIdle /\ KeysIdle /\ DrawerIdle /\ LoaderIdle /\ PlayerIdle /\ RadioIdle /\ TabsIdle /\ TreeIdle /\ SidenavIdle /\ DocsIdle

SpecList == InitList /\ [][NextList]_vars

\* The drawers of a container and its backdrop, the rest at rest.
InitSidenav == SidenavInit /\ MenuIdle /\ KeysIdle /\ DrawerIdle /\ LoaderIdle /\ PlayerIdle /\ RadioIdle /\ TabsIdle /\ TreeIdle /\ SelectionListIdle /\ DocsIdle

SpecSidenav == InitSidenav /\ [][NextSidenav]_vars

\* The document fetcher and a viewer, the rest at rest.
InitDocs == DocsInit /\ MenuIdle /\ KeysIdle /\ DrawerIdle /\ LoaderIdle /\ PlayerIdle /\ RadioIdle /\ TabsIdle /\ TreeIdle /\ SelectionListIdle /\ SidenavIdle

SpecDocs == InitDocs /\ [][NextDocs]_vars

\* ------------------------------------------------------------------------
\* Properties of the menu patterns.
\* ------------------------------------------------------------------------
\* The last handler was MenuPattern.trigger: Enter, or Space outside a
\* typeahead query; last.i is the item that was active.
Triggered == last.op \in {"Enter", " "} /\ last.i # None

\* C1 as stated: trigger on an active item with a submenu opens it, makes the
\* first item of the submenu active and submits nothing; on an active item
\* without a submenu it submits the item.
C1_AsStated ==
    Triggered =>
        IF hasPopup(last.i)
        THEN /\ expandedRaw[last.i]
             /\ active[submenu(last.i)] = itemsOf(submenu(last.i))[1]
             /\ submits = <<>> /\ calls = <<>>
        ELSE submits = <<last.i>>

\* What holds right after trigger, for C1.
C1_After ==
    Triggered =>
        IF hasPopup(last.i)
        THEN /\ submits = <<>> /\ calls = <<>>
             /\ ~disabled[last.i] =>
                   /\ expandedRaw[last.i]
                   /\ ~disabled[itemsOf(submenu(last.i))[1]] =>
                         active[submenu(last.i)] = itemsOf(submenu(last.i))[1]
        ELSE submits = <<last.i>>

\* C1 (amended): trigger on an active item with a submenu submits nothing and,
\* when the item is not disabled, leaves it expanded with the first item of
\* its submenu active if that item is not disabled; a disabled item is not
\* opened; on an active item without a submenu the item is submitted and no
\* item is opened.
C1_Trigger ==
    [][/\ C1_After'
       /\ (Triggered' /\ (~hasPopup(last'.i) \/ disabled[last'.i]))
             => \A j \in Items : expandedRaw'[j] => expandedRaw[j]]_vars

\* C1 witness: Space outside a typeahead query on b2 opened M4 and made d1 active.
C1_Witness ==
    /\ last.op = " " /\ last.i = "b2" /\ ~disabled["b2"]
    /\ expandedRaw["b2"] /\ active["M4"] = "d1" /\ submits = <<>>

\* C2: after closeAll (Escape) in a menu the root trigger is collapsed and no
\* item on the path from the root to that menu, nor any item below the menu,
\* is expanded.
C2_CloseAll ==
    last.op = "Escape" =>
        /\ rootKind = "trigger" => ~trigExpanded
        /\ \A i \in PathItems(last.l) : ~expanded(Cur, i) /\ \A j \in Below(i) : ~expanded(Cur, j)
        /\ \A i \in Range(itemsOf(last.l)) : ~expanded(Cur, i)

\* C5 as stated: after MenuItemPattern.close the item and every item below it
\* are collapsed, no menu below it has an active item, and with refocus the
\* item is the active item of its parent.
C5_AsStated ==
    last.op = "item.close" =>
        /\ ~expanded(Cur, last.i)
        /\ \A j \in Below(last.i) : ~expanded(Cur, j)
        /\ \A m \in MenusBelow(last.i) : active[m] = None
        /\ last.k.refocus => active[last.l] = last.i

\* C5 (amended): as C5, but with refocus the item becomes the active item of
\* its parent only when the parent list can focus it (it is not disabled, or
\* disabled items are kept focusable).
C5_CloseCascade ==
    last.op = "item.close" =>
        /\ ~expanded(Cur, last.i)
        /\ \A j \in Below(last.i) : ~expanded(Cur, j)
        /\ \A m \in MenusBelow(last.i) : active[m] = None
        /\ (last.k.refocus /\ (~disabled[last.i] \/ softDisabled)) => active[last.l] = last.i

\* C5 witness: a2 was closed with refocus while an item below it was expanded
\* with an active item in its own submenu.
C5_Witness ==
    /\ last.op = "item.close" /\ last.i = "a2" /\ last.k.refocus /\ last.k.deep
    /\ active["M1"] = "a2" /\ active["M2"] = None /\ active["M4"] = None

\* C7: submitting (Enter, Space, click) an enabled item without a submenu
\* calls onSelect exactly once with the item's value, whatever the root is;
\* submitting a disabled item or an item with a submenu calls nothing.
C7_OnSelect ==
    (last.op \in {"Enter", " ", "click"} /\ last.i # None) =>
        IF ~disabled[last.i] /\ ~hasPopup(last.i)
        THEN calls = <<last.i>>
        ELSE calls = <<>>

\* The pending timers of a kind that belong to a menu.
Pending(kind, m) == {k \in 1..Len(timers) : timers[k].kind = kind /\ timers[k].menu = m}

\* C3: a pending hover-open is cancelled by every overriding event: at most
\* one open timer is pending per menu, none is pending in a menu right after
\* its onMouseOut, and right after onMouseOver on an item the only open timer
\* pending in that menu is the one of that item.
C3_HoverOpen ==
    /\ \A m \in Menus : Cardinality(Pending("open", m)) <= 1
    /\ last.op = "mouseout" => Pending("open", last.l) = {}
    /\ (last.op = "mouseover" /\ last.i # None) =>
          \A k \in Pending("open", last.l) : timers[k].item = last.i

\* C4: right after MenuTriggerPattern.close (Escape on the trigger) no hover
\* timer is pending in any menu below the trigger, and right after
\* MenuItemPattern.close on an item with a submenu none is pending in the
\* menus below that item.
C4_CloseCancelsTimers ==
    /\ last.op = "trigger.Escape" =>
          \A m \in LiveMenus : /\ Pending("open", m) = {} /\ Pending("close", m) = {}
                               /\ openTimeout[m] = 0 /\ closeTimeout[m] = 0
    /\ (last.op = "item.close" /\ hasPopup(last.i)) =>
          \A m \in MenusBelow(last.i) : /\ Pending("open", m) = {} /\ Pending("close", m) = {}
                                        /\ openTimeout[m] = 0 /\ closeTimeout[m] = 0

\* ------------------------------------------------------------------------
\* Properties of the direction keys.
\* ------------------------------------------------------------------------
\* C6: direction keys are mirrored under RTL. ArrowRight runs expand and
\* ArrowLeft collapse in a menu under 'ltr', exchanged under 'rtl'; next and
\* prev of the menubar and of a horizontal tablist are exchanged the same
\* way; a vertical tablist runs next on ArrowDown and prev on ArrowUp under
\* both directions; no key runs both handlers of a pair.
C6_DirectionKeys ==
    LET ran == Range(kbRan)
        forward == IF kbDir = "rtl" THEN "ArrowLeft" ELSE "ArrowRight"
        backward == IF kbDir = "rtl" THEN "ArrowRight" ELSE "ArrowLeft"
    IN /\ kbWidget = "menu" =>
             /\ "expand" \in ran <=> kbKey = forward
             /\ "collapse" \in ran <=> kbKey = backward
       /\ kbWidget = "menubar" =>
             /\ "next" \in ran <=> kbKey = forward
             /\ "prev" \in ran <=> kbKey = backward
       /\ (kbWidget = "tablist" /\ kbOrientation = "horizontal") =>
             /\ "next" \in ran <=> kbKey = forward
             /\ "prev" \in ran <=> kbKey = backward
       /\ (kbWidget = "tablist" /\ kbOrientation = "vertical") =>
             /\ "next" \in ran <=> kbKey = "ArrowDown"
             /\ "prev" \in ran <=> kbKey = "ArrowUp"
       /\ ~({"expand", "collapse"} \subseteq ran)
       /\ ~({"next", "prev"} \subseteq ran)

\* C6 witness: under 'rtl' ArrowLeft ran expand, and only expand, in a menu.
C6_Witness ==
    kbWidget = "menu" /\ kbDir = "rtl" /\ kbKey = "ArrowLeft" /\ kbRan = <<"expand">>

\* ------------------------------------------------------------------------
\* Properties of drawer validation.
\* ------------------------------------------------------------------------
\* Two drawers of the container have the same position.
Duplicated == \E j, k \in 1..Len(drawers) : j < k /\ drawers[j].position = drawers[k].position

\* The position of the first drawer that repeats the position of an earlier one.
FirstRepeated ==
    LET ks == {k \in 1..Len(drawers) :
                  \E j \in 1..(k - 1) : drawers[j].position = drawers[k].position}
    IN drawers[CHOOSE k \in ks : \A j \in ks : k <= j].position

\* The last drawer with a position, 0 when there is none.
DrawerAt(position) ==
    LET ks == {k \in 1..Len(drawers) : drawers[k].position = position}
    IN IF ks = {} THEN 0 ELSE drawers[CHOOSE k \in ks : \A j \in ks : j <= k].id

\* start/end and left/right refer to the drawers at the positions.
RefersToDrawers ==
    /\ startDrawer = DrawerAt("start") /\ endDrawer = DrawerAt("end")
    /\ leftDrawer = (IF dirValue = "rtl" THEN DrawerAt("end") ELSE DrawerAt("start"))
    /\ rightDrawer = (IF dirValue = "rtl" THEN DrawerAt("start") ELSE DrawerAt("end"))

\* C8 as stated: validation throws whenever two drawers have the same
\* position; with at most one drawer per position it does not throw and
\* start/end and left/right refer to exactly those drawers.
C8_AsStated ==
    validated =>
        IF Duplicated
        THEN thrown \in {"A drawer was already declared for 'position=\"start\"'",
                         "A drawer was already declared for 'position=\"end\"'"}
        ELSE thrown = None /\ RefersToDrawers

\* C8 (amended): validation throws for two drawers with the same position
\* when ngDevMode is undefined or true, naming the repeated position; when
\* ngDevMode is false it never throws and the last drawer of a position is
\* the one start/end and left/right refer to; with at most one drawer per
\* position it never throws and they refer to exactly those drawers.
C8_Validation ==
    validated =>
        IF Duplicated /\ ngDevMode # "false"
        THEN thrown = (IF FirstRepeated = "end"
                       THEN "A drawer was already declared for 'position=\"end\"'"
                       ELSE "A drawer was already declared for 'position=\"start\"'")
        ELSE thrown = None /\ RefersToDrawers

\* C8 witness: with ngDevMode undefined a second 'start' drawer made the
\* validation throw.
C8_Witness ==
    /\ validated /\ ngDevMode = "undefined" /\ Len(drawers) = 2
    /\ drawers[1].position = "start" /\ drawers[2].position = "start"
    /\ thrown = "A drawer was already declared for 'position=\"start\"'"

\* ------------------------------------------------------------------------
\* Properties of the YouTube API loader.
\* ------------------------------------------------------------------------
\* C9: when an injected script fires its error event, every subscriber of
\* load() receives the error 'Failed to load YouTube API' and no value.
C9_ErrorReachesSubscribers ==
    \A n \in 1..Len(observers) :
        observers[n].sawFailure =>
            observers[n].end = "Failed to load YouTube API" /\ observers[n].values = 0

\* C10: once one load has failed, the observable of every later load() call
\* errors and never emits a value.
C10_NoRecovery ==
    \A n \in 1..Len(observers) :
        observers[n].afterFailure =>
            observers[n].end = "Failed to load YouTube API" /\ observers[n].values = 0

\* ------------------------------------------------------------------------
\* Properties of the YouTube player component.
\* ------------------------------------------------------------------------
\* C11: once ngOnDestroy has run, no YT.Player the component created is
\* alive, whatever the order of load(), the script events and ngOnDestroy
\* was (a player created after ngOnDestroy is alive, so this covers "none
\* is created afterwards").
C11_PlayerLifecycle ==
    componentDestroyed => \A k \in 1..Len(ytPlayers) : ytPlayers[k] # "alive"

\* ------------------------------------------------------------------------
\* Properties of the radio group and the radio buttons.
\* ------------------------------------------------------------------------
\* C12: of the radio buttons that exist (each has run ngOnInit) and share a
\* name, at most one is checked.
C12_UniqueSelection ==
    \A p, q \in rPresent : (p # q /\ rName[p] = rName[q]) => ~(rChecked[p] /\ rChecked[q])

RadioState == <<rChecked, rValue, rName, listeners, gValue, gSelected, gRadios>>

\* C14: the programmatic operations never emit the group's change event; an
\* interaction with an unchecked, enabled radio button emits that radio
\* button's change once, and the group's change once exactly when the
\* group's value changed and the group is initialized; an interaction with a
\* checked or disabled radio button emits nothing and changes nothing.
C14_ChangeEvents ==
    [][ /\ radioOp'.op # "interaction" => groupChanges' = <<>>
        /\ radioOp'.op = "interaction" =>
             LET r == radioOp'.r
             IN IF ~rChecked[r] /\ ~radioDisabled(r)
                THEN /\ radioChanges' = <<r>>
                     /\ Len(groupChanges') = (IF gValue' # gValue /\ gIsInitialized THEN 1 ELSE 0)
                ELSE /\ radioChanges' = <<>> /\ groupChanges' = <<>>
                     /\ UNCHANGED RadioState ]_vars

\* ------------------------------------------------------------------------
\* Properties of the tablist.
\* ------------------------------------------------------------------------
FocusableTabs == {t \in Tabs : TabIsFocusable(t)}

\* C15: setDefaultState makes the first focusable tab that is selected the
\* active tab, or else the first focusable tab; with no focusable tab the
\* active tab stays what it was.
C15_SetDefaultState ==
    [][ tabOp'.op = "setDefaultState" =>
          activeTab' = (IF selectedTab \in FocusableTabs THEN selectedTab
                        ELSE IF FocusableTabs # {}
                             THEN CHOOSE t \in FocusableTabs : \A u \in FocusableTabs : t <= u
                             ELSE activeTab) ]_vars

\* setDefaultState went to the selected tab, past a focusable tab before it
C15_Witness ==
    /\ tabOp.op = "setDefaultState" /\ selectedTab # 0 /\ activeTab = selectedTab
    /\ \E t \in FocusableTabs : t < selectedTab

\* The keys that navigate
TabNavKeys == {"ArrowLeft", "ArrowRight", "Home", "End"}

KeyboardNavigation(op) == op.op = "keydown" /\ op.arg \in TabNavKeys

\* What every mode has in common: explicit keyboard navigation leaves
\* selectedTab alone; selectedTab changes only through Space, Enter,
\* pointerdown, open (or navigation in follow mode); open sets selectedTab
\* exactly when it returns true, to the tab asked for, and returns false
\* for an unknown value and when there is no tab to open.
C16_Open ==
    /\ (selectionMode = "explicit" /\ KeyboardNavigation(tabOp')) => selectedTab' = selectedTab
    /\ selectedTab' # selectedTab =>
          \/ tabOp'.op \in {"pointerdown", "open", "open(value)"}
          \/ tabOp'.op = "keydown" /\ tabOp'.arg \in {" ", "Enter"}
          \/ selectionMode = "follow" /\ KeyboardNavigation(tabOp')
    /\ ~tabOp'.result => selectedTab' = selectedTab
    /\ tabOp'.op = "open" =>
          /\ tabOp'.result =>
                selectedTab' = (IF tabOp'.arg = 0 THEN activeTab ELSE tabOp'.arg)
          /\ (tabOp'.arg = 0 /\ activeTab = 0) => ~tabOp'.result
    /\ tabOp'.op = "open(value)" =>
          /\ tabOp'.result => (selectedTab' # 0 /\ TabValue[selectedTab'] = tabOp'.arg)
          /\ tabOp'.arg = "unknown" => ~tabOp'.result

\* C16 as stated: in follow mode every successful keyboard navigation makes
\* the newly active tab the selected tab.
C16_AsStated ==
    [][ /\ C16_Open
        /\ (selectionMode = "follow" /\ KeyboardNavigation(tabOp') /\ tabOp'.ok)
              => selectedTab' = activeTab' ]_vars

\* C16: in follow mode a successful keyboard navigation opens the newly
\* active tab, which becomes the selected tab unless it is disabled (the
\* expansion refuses a disabled tab and selectedTab stays what it was);
\* the rest as stated.
C16_SelectionFollowsFocus ==
    [][ /\ C16_Open
        /\ (selectionMode = "follow" /\ KeyboardNavigation(tabOp') /\ tabOp'.ok)
              => selectedTab' = (IF activeTab' \in tabDisabled THEN selectedTab ELSE activeTab') ]_vars

\* Keyboard navigation in follow mode moved the selection to another tab
C16_Witness ==
    /\ selectionMode = "follow" /\ KeyboardNavigation(tabOp) /\ tabOp.ok
    /\ activeTab = selectedTab /\ tabOp.result
    /\ \E t \in Tabs : t # selectedTab /\ t \notin tabDisabled

\* ------------------------------------------------------------------------
\* Properties of the tree items.
\* ------------------------------------------------------------------------
\* The items above item i: the least set that holds its parent and the
\* parent of each of its members
TreeAncestors(i) ==
    LET Closed(S) == /\ treeParent[i] # 0 => treeParent[i] \in S
                     /\ \A a \in S : treeParent[a] # 0 => treeParent[a] \in S
    IN CHOOSE S \in SUBSET TreeItems :
          Closed(S) /\ \A T \in SUBSET TreeItems : Closed(T) => S \subseteq T

\* C17: an item is visible exactly when all the items above it are expanded
\* (the tree itself is always visible); so after an item is collapsed the
\* items below it are hidden whatever their own expanded state, and
\* expanding an item shows no item below it that has another collapsed item
\* above it.
C17_Visibility ==
    \A i \in TreeItems :
       /\ TreeItemVisible(i) <=> (TreeRootVisible /\ \A a \in TreeAncestors(i) : treeExpanded[a])
       /\ (treeOp.item \in TreeAncestors(i) /\ ~treeOp.value) => ~TreeItemVisible(i)
       /\ (treeOp.item \in TreeAncestors(i) /\ treeOp.value
             /\ \E a \in TreeAncestors(i) : ~treeExpanded[a]) => ~TreeItemVisible(i)

\* An expanded item under an expanded parent is hidden because the item
\* above its parent was collapsed
C17_Witness ==
    \E i \in TreeItems :
       /\ treeParent[i] # 0 /\ treeParent[treeParent[i]] # 0
       /\ treeExpanded[i] /\ treeExpanded[treeParent[i]]
       /\ treeOp = [item |-> treeParent[treeParent[i]], value |-> FALSE]
       /\ ~TreeItemVisible(i)

\* ------------------------------------------------------------------------
\* Properties of the selection list.
\* ------------------------------------------------------------------------
ListState == <<slMultiple, slSelected, optSelected, slValue>>

\* C18 as stated: after ngAfterViewInit a different value of multiple throws
\* and changes nothing; before it the mode changes and the selected options
\* stay selected; the current value never throws.
C18_AsStated ==
    [][ slOp'.op = "multiple" =>
          IF slOp'.arg = slMultiple THEN slThrown' = None /\ UNCHANGED ListState
          ELSE IF slInitialized
               THEN slThrown' = CannotChangeMultiple /\ UNCHANGED ListState
               ELSE /\ slThrown' = None /\ slMultiple' = slOp'.arg
                    /\ slSelected' = slSelected /\ optSelected' = optSelected ]_vars

\* C18: assigning the current value of multiple never throws and changes
\* nothing.  A different value, once ngAfterViewInit has run and ngDevMode is
\* undefined or true, throws and leaves the mode and the selected options
\* unchanged.  Otherwise (before initialization, or with ngDevMode false) the
\* mode changes and the new selection model is given the options that were
\* selected: it keeps them all when the new mode is multiple and only the
\* first when it is single.
C18_MultipleMode ==
    [][ slOp'.op = "multiple" =>
          IF slOp'.arg = slMultiple THEN slThrown' = None /\ UNCHANGED ListState
          ELSE IF slInitialized /\ slNgDevMode \in {"undefined", "true"}
               THEN slThrown' = CannotChangeMultiple /\ UNCHANGED ListState
               ELSE /\ slThrown' = None /\ slMultiple' = slOp'.arg
                    /\ slSelected' = (IF slOp'.arg \/ slSelected = <<>> THEN slSelected
                                      ELSE <<slSelected[1]>>)
                    /\ optSelected' = optSelected ]_vars

\* A change of mode was refused after initialization, with options selected
C18_Witness ==
    /\ slOp.op = "multiple" /\ slThrown = CannotChangeMultiple
    /\ slInitialized /\ Len(slSelected) > 1

\* ------------------------------------------------------------------------
\* Properties of the drawers and of the backdrop.
\* ------------------------------------------------------------------------
ToggleCalls == {"open", "close", "toggle"}

\* What a call of open, close or toggle on the drawer requested
Requested(op, d) ==
    IF op = "open" THEN TRUE ELSE IF op = "close" THEN FALSE ELSE ~dwOpened[d]

\* C19: every promise of open, close or toggle resolves with the state of
\* the drawer at that moment, which is the state its call requested
\* ('open' for open(), 'close' for close()), also when other toggles were
\* requested before the animation ended; a call for the state the drawer
\* already has resolves at once with that state and changes nothing.
C19_TogglePromise ==
    [][ /\ \A k \in 1..Len(dwResolved') :
              /\ dwResolved'[k].result = ToggleResult(dwOpened'[dwResolved'[k].d])
              /\ dwResolved'[k].result = ToggleResult(dwResolved'[k].requested)
        /\ (dwOp'.op \in ToggleCalls /\ Requested(dwOp'.op, dwOp'.d) = dwOpened[dwOp'.d])
              => /\ UNCHANGED <<dwOpened, dwEnding, dwEmissions, dwPending>>
                 /\ Len(dwResolved') = 1 ]_vars

\* Whether the drawer has a backdrop, as the container's documentation has it
HasBackdropSetting(d) ==
    \/ backdropOverride = "true"
    \/ backdropOverride = "null" /\ dwMode[d] # "side"

\* C20: Escape and a backdrop click never close a drawer with disableClose (the
\* backdrop click still emits backdropClick); without disableClose, Escape
\* without modifier keys closes the drawer and a backdrop click closes
\* exactly the start and end drawers that have a backdrop.
C20_DisableClose ==
    [][ /\ dwOp'.op \in {"escape", "key"} =>
              \A d \in dwPresent :
                  dwOpened'[d] = (IF d = dwOp'.d /\ dwOp'.op = "escape" /\ ~dwDisableClose[d]
                                  THEN FALSE ELSE dwOpened[d])
        /\ dwOp'.op = "backdrop" =>
              /\ dwOp'.emitted
              /\ \A d \in dwPresent :
                  dwOpened'[d] = (IF ~dwDisableClose[d] /\ HasBackdropSetting(d)
                                  THEN FALSE ELSE dwOpened[d]) ]_vars

\* A backdrop click has closed one drawer and left open the one with disableClose
C20_Witness ==
    /\ dwOp.op = "backdrop" /\ dwOp.emitted
    /\ \E d \in dwPresent : dwDisableClose[d] /\ dwOpened[d]
    /\ \E d \in dwPresent : ~dwDisableClose[d] /\ ~dwOpened[d] /\ dwPending[d] # <<>>
                            /\ dwPending[d][Len(dwPending[d])] = FALSE

\* ------------------------------------------------------------------------
\* Properties of the expanded items of a menu and of a menubar.
\* ------------------------------------------------------------------------
\* C21: in every menu at most one item is expanded: two sibling submenus are
\* never open together.
C21_OneExpandedItem ==
    \A m \in LiveMenus :
        \A i, j \in Range(itemsOf(m)) : expanded(Cur, i) /\ expanded(Cur, j) => i = j

\* C22: in a menubar at most one item is expanded, and an expanded item of
\* the menubar is the active item of the menubar.
C22_MenuBarExpanded ==
    rootKind = "menubar" =>
        /\ \A i, j \in Range(itemsOf(Bar)) : expanded(Cur, i) /\ expanded(Cur, j) => i = j
        /\ \A i \in Range(itemsOf(Bar)) : expanded(Cur, i) => active[Bar] = i

\* ------------------------------------------------------------------------
\* Properties of the injection of the API script.
\* ------------------------------------------------------------------------
\* C23: whatever the calls of load(), the script is injected at most once;
\* once a load has succeeded a call of load() injects nothing and its
\* subscriber receives one value and then the completion.
C23_InjectedOnce ==
    [][ /\ Len(scripts') <= 1
        /\ (loaded /\ Len(observers') > Len(observers)) =>
              /\ scripts' = scripts
              /\ observers'[Len(observers')].values = 1
              /\ observers'[Len(observers')].end = "complete" ]_vars

\* ------------------------------------------------------------------------
\* Properties of the document fetcher and of the document viewer.
\* ------------------------------------------------------------------------
\* C24: every URL is requested from the server at most once, and the callers
\* of fetchDocument for one URL that received a document received the same
\* text.
C24_OneRequestPerUrl ==
    /\ \A url \in DocUrls : docRequests[url] <= 1
    /\ \A c, e \in 1..Len(docCalls) :
          (/\ docStreams[docCalls[c].stream].url = docStreams[docCalls[e].stream].url
           /\ docCalls[c].got \in DocTexts /\ docCalls[e].got \in DocTexts)
          => docCalls[c].got = docCalls[e].got

\* C25: a response that changes what the viewer displays is the response
\* for the document that was set last, and the viewer is not destroyed.
C25_NoStaleResponse ==
    [][ (docOp'.op = "response" /\ viewerContent' # viewerContent)
          => ~viewerDestroyed /\ viewerDocument = docOp'.url ]_vars

====
